---------------------------- MODULE Spec2Model ----------------------------
(***************************************************************************)
(* A model of the maestro backend supervisor (src-tauri) and its sidecar:  *)
(* the status ingress (core/status_server.rs), the PTY process manager     *)
(* (core/process_manager.rs), the .mcp.json writer                         *)
(* (core/mcp_config_writer.rs), the streaming UTF-8 decoder and the        *)
(* worktree preparation command (commands/worktree.rs).                    *)
(*                                                                         *)
(* Each sub-system has its own next-state relation and specification; the  *)
(* variables of the other sub-systems stay unchanged in its steps.         *)
(***************************************************************************)
EXTENDS Integers, Sequences, FiniteSets, TLC

(***************************************************************************)
(* Option<T>: None is the empty sequence, Some(x) the one-element sequence. *)
(***************************************************************************)
None == << >>

Some(x) == << x >>

IsSome(o) == Len(o) = 1

Unwrap(o) == o[1]

(***************************************************************************)
(* HashMap helpers: a map is a function whose domain is its key set.       *)
(***************************************************************************)
MapInsert(m, k, v) == [x \in (DOMAIN m) \cup {k} |-> IF x = k THEN v ELSE m[x]]

MapRemove(m, k) == [x \in (DOMAIN m) \ {k} |-> m[x]]

MapGet(m, k) == IF k \in DOMAIN m THEN Some(m[k]) ELSE None

EmptyMap == [x \in {} |-> 0]

(***************************************************************************)
(*                       STATUS INGRESS (status_server.rs)                 *)
(***************************************************************************)
VARIABLES
    session_projects,   \* ServerState.session_projects: session id -> project path
    pending_statuses,   \* ServerState.pending_statuses: session id -> StatusRequest
    events,             \* the session-status-changed events published, in order
    hpc,                \* per HTTP handler task: position in handle_status
    hreq,               \* per handler: the request being handled (Option)
    hproj,              \* per handler: the project path it looked up (Option)
    hresp,              \* per handler: the status code it answers (0: none yet)
    rpc,                \* per caller task: position in register/unregister_session
    rarg,               \* per caller: <<session_id, project_path, operation, fresh>> of the
                        \* call (fresh: no handler held a project path for the session
                        \* when the call began)
    rbuf,               \* per caller: the buffered status register_session took out
    rstart,             \* per caller: pending entry of the session when the call began
    rlen,               \* per caller: number of events published when the call began
    rquiet,             \* per caller: no status handler for the session ran during the call
    ralone,             \* per caller: nor any other register/unregister for the session
    nops                \* requests received and register/unregister calls made so far

statusVars == << session_projects, pending_statuses, events, hpc, hreq, hproj, hresp,
                 rpc, rarg, rbuf, rstart, rlen, rquiet, ralone, nops >>

\* The state of the PTY process manager (process_manager.rs).
VARIABLES
    next_id,        \* Inner.next_id (AtomicU32)
    sessions,       \* Inner.sessions: session id -> PtySession
    pty,            \* per allocated id: the child shell, reader thread, channel, emitter task
    spc,            \* per spawn_shell call: position
    sfetched,            \* per spawn_shell call: the id it fetched (0: none)
    sseen,          \* per spawn_shell call: the ids already returned when it began
    sres,           \* per spawn_shell call: its result (Option)
    issued,         \* the ids spawn_shell has returned, in the order of the returns
    kpc,            \* per kill_session call: position
    karg,           \* per kill_session call: <<session_id, live when called>>
    ksig,           \* per kill_session call: the signals it has sent
    kterm,          \* per kill_session call: how its SIGTERM went ("": not sent yet)
    kres,           \* per kill_session call: its result ("": none yet)
    nremoved,       \* per id: how many kill_session calls removed it from the map
    pops            \* spawn_shell, kill_session, resize_pty and kill_process calls so far

ptyVars == << next_id, sessions, pty, spc, sfetched, sseen, sres, issued,
              kpc, karg, ksig, kterm, kres, nremoved, pops >>

\* The state of the .mcp.json writer (mcp_config_writer.rs) for one working directory.
VARIABLES
    mfile,          \* the content of <dir>/.mcp.json
    mtemp,          \* the content of <dir>/.mcp.json.tmp.<pid> (Option)
    mcp_bin,        \* find_maestro_mcp_path() finds the sidecar binary
    DIR_LOCKS,      \* path string -> the call holding that path's mutex (0: free)
    mpc,            \* per call task: position in write/remove_session_mcp_config
    marg,           \* per call: [op, working_dir, session_id, custom]
    mres,           \* per call: its result ("": none yet)
    mwith,          \* per call: the calls in progress when it was made
    mpaths,         \* the working_dir strings the calls of this run have used
    mlin,           \* the content that running the calls alone, in commit order, gives
    morig,          \* the content of <dir>/.mcp.json before the first call
    mops            \* write/remove calls made so far

mcpVars == << mfile, mtemp, mcp_bin, DIR_LOCKS, mpc, marg, mres, mwith, mpaths, mlin, morig,
             mops >>

\* The state of one Utf8Decoder and of the byte stream fed to it.
VARIABLES
    incomplete,     \* Utf8Decoder.incomplete
    utf8_input,     \* the whole byte sequence the PTY produces
    utf8_pos,       \* how many of its bytes have been passed to decode
    utf8_out        \* the concatenation of the strings decode has returned

utf8Vars == << incomplete, utf8_input, utf8_pos, utf8_out >>

\* The state of one Git repository (the project) and of the prepare_session_worktree
\* calls on it (commands/worktree.rs, core/worktree_manager.rs).
VARIABLES
    locals,         \* the local branches
    remotes,        \* the remote-tracking refs
    worktrees,      \* the worktrees, main and linked: path -> branch (None: detached)
    init_default,   \* git config init.defaultBranch (Option)
    wpc,            \* per prepare call: position in prepare_worktree_inner
    wproject,       \* per call: the `project_path` argument
    wbranch,        \* per call: the `branch` argument (Option)
    wlocal,         \* per call: local_branch
    wsnap,          \* per call: `branches`, the list_branches result it works with
    wwarn,          \* per call: `warning`
    wres,           \* per call: the Result returned (Option)
    wgit,           \* per call: no Git step of the call has failed
    wsolo,          \* per call: no other prepare call has run during the call
    wmain,          \* per call: it asked for the project's current branch, others existing
    wops            \* prepare calls made so far

wtVars == << locals, remotes, worktrees, init_default,
             wpc, wproject, wbranch, wlocal, wsnap, wwarn, wres, wgit, wsolo, wmain, wops >>

\* The state of one sidecar process (maestro-mcp-server): its StatusReporter and the
\* JSON-RPC request it is handling.
VARIABLES
    status_url,     \* StatusReporter::status_url (Option)
    jpc,            \* position: "idle", "posting" (in report_status's loop), "responded"
    jreq,           \* the JSON-RPC request being handled (Option)
    attempt,        \* the loop variable of report_status
    last_error,     \* last_error of report_status (Option)
    posts,          \* the outcomes of the POSTs the current report_status has made
    jreport,        \* what report_status returned (Option)
    jresp,          \* the JSON-RPC response written (Option)
    jcalls          \* requests read so far

repVars == << status_url, jpc, jreq, attempt, last_error, posts, jreport, jresp, jcalls >>

\* The state of the session registry (session_manager.rs) and of the front-end commands
\* that work on it and on the PTY sessions (commands/session.rs, commands/terminal.rs,
\* process_tree.rs).
VARIABLES
    registry,       \* SessionManager.sessions: session id -> SessionConfig
    clast,          \* the last SessionManager call: [seq, op, id, result], seq its number
    xpc,            \* remove_sessions_for_project command: position
    xpath,          \* its `canonical` (Option)
    xremoved,       \* its `removed`, in the order of the loop
    xi,             \* the index in `removed` of the session the loop is at
    xdone,          \* the ids of the sessions the last such command removed, once it
                    \* has returned
    winsize,        \* per PTY session id: the size the last successful resize gave it
    zlast,          \* the last resize_pty command: [seq, session_id, rows, cols, result,
                    \* live], seq its number, live: the id was in the map
    qpc,            \* kill_process command: position
    qpid,           \* its `pid`
    qroot,          \* pid was the root pid of a session in the map when it was called
    qsig,           \* the signals it has sent
    qres,           \* its result ("": none yet)
    cops,           \* registry calls and commands made so far
    gpc,            \* per caller of SessionManager::remove_sessions_for_project: position
    gpath,          \* its `project_path`
    gids,           \* its `ids_to_remove`, what is left of it
    gout,           \* the records its filter_map has collected so far
    gnext           \* the id of the next session the front end creates a record for

cmdVars == << registry, clast, xpc, xpath, xremoved, xi, xdone, winsize, zlast,
              qpc, qpid, qroot, qsig, qres, cops, gpc, gpath, gids, gout,
              gnext >>

\* The managed worktree paths computed so far (worktree_manager.rs).
VARIABLES
    computed        \* branch name -> the path WorktreeManager::worktree_path gave it

pathVars == << computed >>

\* What a step of one sub-system leaves alone: the state of the others.
notStatus == << ptyVars, mcpVars, utf8Vars, wtVars, repVars, cmdVars, pathVars >>

notPty == << statusVars, mcpVars, utf8Vars, wtVars, repVars, cmdVars, pathVars >>

notMcp == << statusVars, ptyVars, utf8Vars, wtVars, repVars, cmdVars, pathVars >>

notUtf8 == << statusVars, ptyVars, mcpVars, wtVars, repVars, cmdVars, pathVars >>

notWt == << statusVars, ptyVars, mcpVars, utf8Vars, repVars, cmdVars, pathVars >>

notRep == << statusVars, ptyVars, mcpVars, utf8Vars, wtVars, cmdVars, pathVars >>

\* Bound of the status model: the requests received and the register/unregister
\* calls made in one run, together.
MaxOps == 3

\* const MAX_PENDING_STATUSES
MAX_PENDING_STATUSES == 100

SessionIds == {1, 2}

\* The tasks that run handle_status, and those that call register/unregister_session.
Handlers == {1, 2}

Callers == {1, 2}

ProjectPaths == {"/project/alpha", "/project/beta"}

\* The server's instance id and a stale one.
instance_id == "inst-current"

\* state, message, needs_input_prompt of the requests the model sends.
StatusBodies ==
    { << "needs_input", "Question", Some("Which file?") >>,
      << "thinking", "Hm", None >> }

StaleBody == << "working", "Stale", None >>

StatusRequest(sid, inst, body) ==
    [ session_id |-> sid, instance_id |-> inst, state |-> body[1],
      message |-> body[2], needs_input_prompt |-> body[3] ]

StatusRequests ==
    { StatusRequest(sid, instance_id, body) : sid \in SessionIds, body \in StatusBodies }
    \cup { StatusRequest(sid, "inst-old", StaleBody) : sid \in SessionIds }

\* A mapping that hands the request's state string on as the status.
MapState_Passthrough(state) == state

\* emit_status: the match on payload.state.
MapState(state) ==
    CASE state = "idle" -> "Idle"
      [] state = "working" -> "Working"
      [] state = "needs_input" -> "NeedsInput"
      [] state = "finished" -> "Done"
      [] state = "error" -> "Error"
      [] OTHER -> "Unknown"

\* emit_status: the SessionStatusPayload handed to emit_fn.
SessionStatusPayload(sid, project_path, payload) ==
    [ session_id |-> sid, project_path |-> project_path,
      status |-> MapState(payload.state), message |-> payload.message,
      needs_input_prompt |-> payload.needs_input_prompt ]

emit_status(sid, project_path, payload) ==
    events' = Append(events, SessionStatusPayload(sid, project_path, payload))

\* Statuses of sessions 3, 4, ... that never registered: one short of a full buffer.
Backlog ==
    [sid \in 3..(MAX_PENDING_STATUSES + 1) |->
        StatusRequest(sid, instance_id, << "thinking", "Hm", None >>)]

StatusInit(buffered) ==
    /\ session_projects = EmptyMap
    /\ pending_statuses = buffered
    /\ events = << >>
    /\ hpc = [h \in Handlers |-> "idle"]
    /\ hreq = [h \in Handlers |-> None]
    /\ hproj = [h \in Handlers |-> None]
    /\ hresp = [h \in Handlers |-> 0]
    /\ rpc = [c \in Callers |-> "idle"]
    /\ rarg = [c \in Callers |-> None]
    /\ rbuf = [c \in Callers |-> None]
    /\ rstart = [c \in Callers |-> None]
    /\ rlen = [c \in Callers |-> 0]
    /\ rquiet = [c \in Callers |-> TRUE]
    /\ ralone = [c \in Callers |-> TRUE]
    /\ nops = 0

\* The runtime gives a new task the first free slot: slot h2 (c2) is taken only
\* while h1 (c1) is busy.  The tasks are interchangeable, so no interleaving is lost.
FirstFree(pc, t) == \A u \in DOMAIN pc : (u < t) => pc[u] # "idle"

\* The session a caller's register/unregister call is about (0: no call).
CallSession(c) == IF IsSome(rarg[c]) THEN Unwrap(rarg[c])[1] ELSE 0

\* The session a handler's request is about (0: no request, or one already rejected).
HandlerSession(h) ==
    IF IsSome(hreq[h]) /\ hpc[h] = "routed"
    THEN Unwrap(hreq[h]).session_id ELSE 0

\* Bookkeeping for the calls in progress when handler work for session sid is present.
NoteHandler(sid) ==
    rquiet' = [c \in Callers |-> rquiet[c] /\ ~(rpc[c] # "idle" /\ CallSession(c) = sid)]

\* Mutant: the instance check accepts every request.
InstanceMatches_Always(payload) == TRUE

\* handle_status: "Verify this request is for our instance".
InstanceMatches(payload) == payload.instance_id = instance_id

\* A POST /status arrives and handle_status runs up to the lookup of the project
\* path under the read lock (the instance check touches no shared state).
HandleStatusLookup(h, req) ==
    /\ hpc[h] = "idle"
    /\ FirstFree(hpc, h)
    /\ nops < MaxOps
    /\ nops' = nops + 1
    /\ hreq' = [hreq EXCEPT ![h] = Some(req)]
    /\ IF ~InstanceMatches(req)
       THEN /\ hresp' = [hresp EXCEPT ![h] = 403]
            /\ hpc' = [hpc EXCEPT ![h] = "done"]
            /\ UNCHANGED << hproj, rquiet >>
       ELSE /\ hproj' = [hproj EXCEPT ![h] = MapGet(session_projects, req.session_id)]
            /\ hpc' = [hpc EXCEPT ![h] = "routed"]
            /\ NoteHandler(req.session_id)
            /\ UNCHANGED hresp
    /\ UNCHANGED << session_projects, pending_statuses, events,
                    rpc, rarg, rbuf, rstart, rlen, ralone >>
    /\ UNCHANGED notStatus

\* handle_status, Some(p): emit the event and answer 200.
HandleStatusEmit(h) ==
    /\ hpc[h] = "routed"
    /\ IsSome(hproj[h])
    /\ LET payload == Unwrap(hreq[h]) IN
       emit_status(payload.session_id, Unwrap(hproj[h]), payload)
    /\ hresp' = [hresp EXCEPT ![h] = 200]
    /\ hpc' = [hpc EXCEPT ![h] = "done"]
    /\ UNCHANGED << session_projects, pending_statuses, hreq, hproj,
                    rpc, rarg, rbuf, rstart, rlen, rquiet, ralone, nops >>
    /\ UNCHANGED notStatus

\* Mutant: the buffer takes the status whatever its size.
HandleStatusBuffer_Unbounded(h) ==
    /\ hpc[h] = "routed"
    /\ ~IsSome(hproj[h])
    /\ LET payload == Unwrap(hreq[h]) IN
       pending_statuses' = MapInsert(pending_statuses, payload.session_id, payload)
    /\ hresp' = [hresp EXCEPT ![h] = 202]
    /\ hpc' = [hpc EXCEPT ![h] = "done"]
    /\ UNCHANGED << session_projects, events, hreq, hproj,
                    rpc, rarg, rbuf, rstart, rlen, rquiet, ralone, nops >>
    /\ UNCHANGED notStatus

\* handle_status, None: buffer the status under the write lock, answer 202.
HandleStatusBuffer(h) ==
    /\ hpc[h] = "routed"
    /\ ~IsSome(hproj[h])
    /\ LET payload == Unwrap(hreq[h]) IN
       IF Cardinality(DOMAIN pending_statuses) < MAX_PENDING_STATUSES
       THEN pending_statuses' = MapInsert(pending_statuses, payload.session_id, payload)
       ELSE UNCHANGED pending_statuses
    /\ hresp' = [hresp EXCEPT ![h] = 202]
    /\ hpc' = [hpc EXCEPT ![h] = "done"]
    /\ UNCHANGED << session_projects, events, hreq, hproj,
                    rpc, rarg, rbuf, rstart, rlen, rquiet, ralone, nops >>
    /\ UNCHANGED notStatus

\* The response has been sent; the handler task ends.
HandleStatusReturn(h) ==
    /\ hpc[h] = "done"
    /\ hpc' = [hpc EXCEPT ![h] = "idle"]
    /\ hreq' = [hreq EXCEPT ![h] = None]
    /\ hproj' = [hproj EXCEPT ![h] = None]
    /\ hresp' = [hresp EXCEPT ![h] = 0]
    /\ UNCHANGED << session_projects, pending_statuses, events,
                    rpc, rarg, rbuf, rstart, rlen, rquiet, ralone, nops >>
    /\ UNCHANGED notStatus

\* A call of caller c for session sid begins: note it in the calls in progress.
BeginCall(c, sid) ==
    /\ rpc[c] = "idle"
    /\ FirstFree(rpc, c)
    /\ nops < MaxOps
    /\ nops' = nops + 1
    /\ rstart' = [rstart EXCEPT ![c] = MapGet(pending_statuses, sid)]
    /\ rlen' = [rlen EXCEPT ![c] = Len(events)]
    /\ rbuf' = [rbuf EXCEPT ![c] = None]
    /\ rquiet' = [rquiet EXCEPT ![c] = \A h \in Handlers : HandlerSession(h) # sid]
    /\ ralone' = [d \in Callers |->
                    IF d = c
                    THEN \A e \in Callers \ {c} : ~(rpc[e] # "idle" /\ CallSession(e) = sid)
                    ELSE ralone[d] /\ ~(rpc[d] # "idle" /\ CallSession(d) = sid)]

\* register_session: insert into session_projects under the write lock.
RegisterInsert(c, sid, project_path) ==
    /\ BeginCall(c, sid)
    /\ rarg' = [rarg EXCEPT ![c] = Some(<< sid, project_path, "register",
                \A h \in Handlers : ~(HandlerSession(h) = sid /\ IsSome(hproj[h])) >>)]
    /\ session_projects' = MapInsert(session_projects, sid, project_path)
    /\ rpc' = [rpc EXCEPT ![c] = "reg_take"]
    /\ UNCHANGED << pending_statuses, events, hpc, hreq, hproj, hresp >>
    /\ UNCHANGED notStatus

\* Mutant: the buffered status is read but left in pending_statuses.
RegisterTake_Peek(c) ==
    /\ rpc[c] = "reg_take"
    /\ rbuf' = [rbuf EXCEPT ![c] = MapGet(pending_statuses, CallSession(c))]
    /\ rpc' = [rpc EXCEPT ![c] = "reg_flush"]
    /\ UNCHANGED << session_projects, pending_statuses, events, hpc, hreq, hproj, hresp,
                    rarg, rstart, rlen, rquiet, ralone, nops >>
    /\ UNCHANGED notStatus

\* register_session: take the session's entry out of pending_statuses.
RegisterTake(c) ==
    /\ rpc[c] = "reg_take"
    /\ LET sid == CallSession(c) IN
       /\ rbuf' = [rbuf EXCEPT ![c] = MapGet(pending_statuses, sid)]
       /\ pending_statuses' = MapRemove(pending_statuses, sid)
    /\ rpc' = [rpc EXCEPT ![c] = "reg_flush"]
    /\ UNCHANGED << session_projects, events, hpc, hreq, hproj, hresp,
                    rarg, rstart, rlen, rquiet, ralone, nops >>
    /\ UNCHANGED notStatus

\* register_session: if let Some(payload) = buffered, emit it; then return.
RegisterFlush(c) ==
    /\ rpc[c] = "reg_flush"
    /\ IF IsSome(rbuf[c])
       THEN emit_status(CallSession(c), Unwrap(rarg[c])[2], Unwrap(rbuf[c]))
       ELSE UNCHANGED events
    /\ rpc' = [rpc EXCEPT ![c] = "returned"]
    /\ UNCHANGED << session_projects, pending_statuses, hpc, hreq, hproj, hresp,
                    rarg, rbuf, rstart, rlen, rquiet, ralone, nops >>
    /\ UNCHANGED notStatus

\* unregister_session: remove from session_projects under the write lock.
UnregisterProjects(c, sid) ==
    /\ BeginCall(c, sid)
    /\ rarg' = [rarg EXCEPT ![c] = Some(<< sid, "", "unregister", TRUE >>)]
    /\ session_projects' = MapRemove(session_projects, sid)
    /\ rpc' = [rpc EXCEPT ![c] = "unreg_pending"]
    /\ UNCHANGED << pending_statuses, events, hpc, hreq, hproj, hresp >>
    /\ UNCHANGED notStatus

\* unregister_session: remove the buffered status; then return.
UnregisterPending(c) ==
    /\ rpc[c] = "unreg_pending"
    /\ pending_statuses' = MapRemove(pending_statuses, CallSession(c))
    /\ rpc' = [rpc EXCEPT ![c] = "returned"]
    /\ UNCHANGED << session_projects, events, hpc, hreq, hproj, hresp,
                    rarg, rbuf, rstart, rlen, rquiet, ralone, nops >>
    /\ UNCHANGED notStatus

\* The caller has its result; the task ends.
CallReturn(c) ==
    /\ rpc[c] = "returned"
    /\ rpc' = [rpc EXCEPT ![c] = "idle"]
    /\ rarg' = [rarg EXCEPT ![c] = None]
    /\ rbuf' = [rbuf EXCEPT ![c] = None]
    /\ rstart' = [rstart EXCEPT ![c] = None]
    /\ rlen' = [rlen EXCEPT ![c] = 0]
    /\ rquiet' = [rquiet EXCEPT ![c] = TRUE]
    /\ ralone' = [ralone EXCEPT ![c] = TRUE]
    /\ UNCHANGED << session_projects, pending_statuses, events, hpc, hreq, hproj, hresp, nops >>
    /\ UNCHANGED notStatus

StatusNext ==
    \/ \E h \in Handlers, req \in StatusRequests : HandleStatusLookup(h, req)
    \/ \E h \in Handlers : HandleStatusEmit(h)
    \/ \E h \in Handlers : HandleStatusBuffer(h)
    \/ \E h \in Handlers : HandleStatusReturn(h)
    \/ \E c \in Callers, sid \in SessionIds, p \in ProjectPaths : RegisterInsert(c, sid, p)
    \/ \E c \in Callers : RegisterTake(c)
    \/ \E c \in Callers : RegisterFlush(c)
    \/ \E c \in Callers, sid \in SessionIds : UnregisterProjects(c, sid)
    \/ \E c \in Callers : UnregisterPending(c)
    \/ \E c \in Callers : CallReturn(c)

(***************************************************************************)
(*                   PTY PROCESS MANAGER (process_manager.rs)              *)
(***************************************************************************)
\* Bound of the PTY model: the spawn_shell and kill_session calls of one run,
\* together.
MaxPtyOps == 3

\* Bound standing for the capacity of the output channel, mpsc::channel(256).
ChannelSlots == 2

\* Bound standing for u32::MAX, the largest value of the id counter.
IdMax == 3

\* The tasks that run the spawn_shell and kill_session commands.
Spawners == {1, 2}

Killers == {1, 2}

\* The child's pid, and its process group (setsid makes the child the group leader).
PtySession(id) == [ child_pid |-> 1000 + id, pgid |-> 1000 + id ]

PtyInit ==
    /\ next_id = 1
    /\ sessions = EmptyMap
    /\ pty = EmptyMap
    /\ spc = [t \in Spawners |-> "idle"]
    /\ sfetched = [t \in Spawners |-> 0]
    /\ sseen = [t \in Spawners |-> {}]
    /\ sres = [t \in Spawners |-> None]
    /\ issued = << >>
    /\ kpc = [k \in Killers |-> "idle"]
    /\ karg = [k \in Killers |-> << 0, FALSE >>]
    /\ ksig = [k \in Killers |-> << >>]
    /\ kterm = [k \in Killers |-> ""]
    /\ kres = [k \in Killers |-> ""]
    /\ nremoved = EmptyMap
    /\ pops = 0

\* A fetch_update that hands out the same value every time.
FetchUpdate_Constant(current) == Some(1)

\* next_id.fetch_update(|current| current.checked_add(1)): the previous value, or
\* None when the addition overflows.
FetchUpdate(current) == IF current + 1 > IdMax THEN None ELSE Some(current)

\* spawn_shell: allocate the id.
SpawnAlloc(t) ==
    /\ spc[t] = "idle"
    /\ FirstFree(spc, t)
    /\ pops < MaxPtyOps
    /\ pops' = pops + 1
    /\ sseen' = [sseen EXCEPT ![t] = { issued[i] : i \in 1..Len(issued) }]
    /\ IF IsSome(FetchUpdate(next_id))
       THEN /\ next_id' = next_id + 1
            /\ sfetched' = [sfetched EXCEPT ![t] = Unwrap(FetchUpdate(next_id))]
            /\ spc' = [spc EXCEPT ![t] = "allocated"]
            /\ UNCHANGED sres
       ELSE /\ sres' = [sres EXCEPT ![t] = Some(<< "Err", "IdOverflow" >>)]
            /\ spc' = [spc EXCEPT ![t] = "returned"]
            /\ UNCHANGED << next_id, sfetched >>
    /\ UNCHANGED << sessions, pty, issued, kpc, karg, ksig, kres, nremoved, kterm >>
    /\ UNCHANGED notPty

\* The steps of spawn_shell that can fail with SpawnFailed.
SpawnSteps ==
    { "openpty", "spawn_command", "process_id", "take_writer", "try_clone_reader",
      "reader_thread" }

\* What spawn_shell starts for a session: the child shell, the reader thread, the
\* bounded channel (its fill), the emitter task, the shutdown Notify, the master fd.
PtyResources ==
    [ child |-> "alive", reader |-> "reading", emitter |-> "running",
      chan |-> 0, notified |-> FALSE, master_open |-> TRUE ]

\* What a spawn_shell leaves when it fails after spawn_command: the child shell, which
\* nothing kills or waits for, on a PTY whose master is dropped with `pair`.
OrphanResources ==
    [ child |-> "alive", reader |-> "none", emitter |-> "none",
      chan |-> 0, notified |-> FALSE, master_open |-> FALSE ]

\* spawn_shell: openpty, spawn_command, process_id, take_writer, try_clone_reader,
\* the reader thread and the emitter task.  Each of them but the last can fail and
\* returns SpawnFailed through `?`: before the child exists (failed = "openpty",
\* "spawn_command") or after ("process_id", "take_writer", "try_clone_reader",
\* "reader_thread").
SpawnCreate(t, failed) ==
    /\ spc[t] = "allocated"
    /\ IF failed = "none"
       THEN /\ pty' = MapInsert(pty, sfetched[t], PtyResources)
            /\ spc' = [spc EXCEPT ![t] = "created"]
            /\ UNCHANGED sres
       ELSE /\ spc' = [spc EXCEPT ![t] = "returned"]
            /\ sres' = [sres EXCEPT ![t] = Some(<< "Err", "SpawnFailed" >>)]
            /\ IF failed \in {"openpty", "spawn_command"}
               THEN UNCHANGED pty
               ELSE pty' = MapInsert(pty, sfetched[t], OrphanResources)
    /\ UNCHANGED << next_id, sessions, sfetched, sseen, issued,
                    kpc, karg, ksig, kres, nremoved, pops, kterm >>
    /\ UNCHANGED notPty

\* spawn_shell: sessions.insert(id, session); Ok(id).
SpawnInsert(t) ==
    /\ spc[t] = "created"
    /\ sessions' = MapInsert(sessions, sfetched[t], PtySession(sfetched[t]))
    /\ sres' = [sres EXCEPT ![t] = Some(<< "Ok", sfetched[t] >>)]
    /\ issued' = Append(issued, sfetched[t])
    /\ spc' = [spc EXCEPT ![t] = "returned"]
    /\ UNCHANGED << next_id, pty, sfetched, sseen, kpc, karg, ksig, kres, nremoved, pops, kterm >>
    /\ UNCHANGED notPty

\* The spawn_shell command has answered; the task ends.
SpawnReturn(t) ==
    /\ spc[t] = "returned"
    /\ spc' = [spc EXCEPT ![t] = "idle"]
    /\ sfetched' = [sfetched EXCEPT ![t] = 0]
    /\ sseen' = [sseen EXCEPT ![t] = {}]
    /\ sres' = [sres EXCEPT ![t] = None]
    /\ UNCHANGED << next_id, sessions, pty, issued, kpc, karg, ksig, kres, nremoved, pops, kterm >>
    /\ UNCHANGED notPty

\* The shell exits (by itself, or killed by a signal).
ChildExit(id) ==
    /\ id \in DOMAIN pty
    /\ pty[id].child = "alive"
    /\ pty' = [pty EXCEPT ![id].child = "dead"]
    /\ UNCHANGED << next_id, sessions, spc, sfetched, sseen, sres, issued,
                    kpc, karg, ksig, kres, nremoved, pops, kterm >>
    /\ UNCHANGED notPty

\* Reader thread: reader.read(&mut buf) returns Ok(n), n > 0.
ReaderRead(id) ==
    /\ id \in DOMAIN pty
    /\ pty[id].reader = "reading"
    /\ pty[id].child = "alive" /\ pty[id].master_open
    /\ pty' = [pty EXCEPT ![id].reader = "sending"]
    /\ UNCHANGED << next_id, sessions, spc, sfetched, sseen, sres, issued,
                    kpc, karg, ksig, kres, nremoved, pops, kterm >>
    /\ UNCHANGED notPty

\* A reader thread that may give up reading while the PTY is still open.
ReaderEof_Spurious(id) ==
    /\ id \in DOMAIN pty
    /\ pty[id].reader = "reading"
    /\ pty' = [pty EXCEPT ![id].reader = "exited"]
    /\ UNCHANGED << next_id, sessions, spc, sfetched, sseen, sres, issued,
                    kpc, karg, ksig, kres, nremoved, pops, kterm >>
    /\ UNCHANGED notPty

\* Reader thread: read returns Ok(0) or a fatal error once the PTY is closed.
ReaderEof(id) ==
    /\ id \in DOMAIN pty
    /\ pty[id].reader = "reading"
    /\ pty[id].child # "alive" \/ ~pty[id].master_open
    /\ pty' = [pty EXCEPT ![id].reader = "exited"]
    /\ UNCHANGED << next_id, sessions, spc, sfetched, sseen, sres, issued,
                    kpc, karg, ksig, kres, nremoved, pops, kterm >>
    /\ UNCHANGED notPty

\* A blocking_send that only ever waits for a free slot, the receiver dropped or not.
ReaderSend_NoFail(id) ==
    /\ id \in DOMAIN pty
    /\ pty[id].reader = "sending"
    /\ pty[id].emitter # "exited"
    /\ pty[id].chan < ChannelSlots
    /\ pty' = [pty EXCEPT ![id].reader = "reading", ![id].chan = @ + 1]
    /\ UNCHANGED << next_id, sessions, spc, sfetched, sseen, sres, issued,
                    kpc, karg, ksig, kres, nremoved, pops, kterm >>
    /\ UNCHANGED notPty

\* Reader thread: tx.blocking_send(chunk).  It fails when the receiver is gone (the
\* thread then exits), succeeds when a slot is free, and otherwise waits for one.
ReaderSend(id) ==
    /\ id \in DOMAIN pty
    /\ pty[id].reader = "sending"
    /\ \/ /\ pty[id].emitter = "exited"
          /\ pty' = [pty EXCEPT ![id].reader = "exited"]
       \/ /\ pty[id].emitter # "exited"
          /\ pty[id].chan < ChannelSlots
          /\ pty' = [pty EXCEPT ![id].reader = "reading", ![id].chan = @ + 1]
    /\ UNCHANGED << next_id, sessions, spc, sfetched, sseen, sres, issued,
                    kpc, karg, ksig, kres, nremoved, pops, kterm >>
    /\ UNCHANGED notPty

\* Emitter task: rx.recv() yields a chunk; it is decoded and published as
\* pty-output-{id}.
EmitterRecv(id) ==
    /\ id \in DOMAIN pty
    /\ pty[id].emitter = "running"
    /\ pty[id].chan > 0
    /\ pty' = [pty EXCEPT ![id].chan = @ - 1]
    /\ UNCHANGED << next_id, sessions, spc, sfetched, sseen, sres, issued,
                    kpc, karg, ksig, kres, nremoved, pops, kterm >>
    /\ UNCHANGED notPty

\* Emitter task: rx.recv() yields None (the sender is dropped and the channel empty),
\* or shutdown.notified() completes; the task ends and drops the receiver.
EmitterExit(id) ==
    /\ id \in DOMAIN pty
    /\ pty[id].emitter = "running"
    /\ \/ pty[id].chan = 0 /\ pty[id].reader = "exited"
       \/ pty[id].notified
    /\ pty' = [pty EXCEPT ![id].emitter = "exited", ![id].chan = 0]
    /\ UNCHANGED << next_id, sessions, spc, sfetched, sseen, sres, issued,
                    kpc, karg, ksig, kres, nremoved, pops, kterm >>
    /\ UNCHANGED notPty

\* The kill_session command is invoked for session_id.
KillCall(k, session_id) ==
    /\ kpc[k] = "idle"
    /\ FirstFree(kpc, k)
    /\ pops < MaxPtyOps
    /\ pops' = pops + 1
    /\ karg' = [karg EXCEPT ![k] = << session_id, session_id \in DOMAIN sessions >>]
    /\ kpc' = [kpc EXCEPT ![k] = "called"]
    /\ UNCHANGED << next_id, sessions, pty, spc, sfetched, sseen, sres, issued,
                    ksig, kres, nremoved, kterm >>
    /\ UNCHANGED notPty

\* A kill_session that goes on whether or not it found the session in the map.
KillRemove_Unchecked(k) ==
    /\ kpc[k] = "called"
    /\ karg[k][1] \in DOMAIN pty
    /\ sessions' = MapRemove(sessions, karg[k][1])
    /\ nremoved' = MapInsert(nremoved, karg[k][1],
                             IF karg[k][1] \in DOMAIN nremoved
                             THEN nremoved[karg[k][1]] + 1 ELSE 1)
    /\ kpc' = [kpc EXCEPT ![k] = "removed"]
    /\ UNCHANGED << next_id, pty, spc, sfetched, sseen, sres, issued,
                    karg, ksig, kres, pops, kterm >>
    /\ UNCHANGED notPty

\* kill_session: sessions.remove(&session_id), or SessionNotFound.
KillRemove(k) ==
    /\ kpc[k] = "called"
    /\ LET id == karg[k][1] IN
       IF id \in DOMAIN sessions
       THEN /\ sessions' = MapRemove(sessions, id)
            /\ nremoved' = MapInsert(nremoved, id,
                                     IF id \in DOMAIN nremoved THEN nremoved[id] + 1 ELSE 1)
            /\ kpc' = [kpc EXCEPT ![k] = "removed"]
            /\ UNCHANGED kres
       ELSE /\ kres' = [kres EXCEPT ![k] = "SessionNotFound"]
            /\ kpc' = [kpc EXCEPT ![k] = "returned"]
            /\ UNCHANGED << sessions, nremoved >>
    /\ UNCHANGED << next_id, pty, spc, sfetched, sseen, sres, issued, karg, ksig, pops, kterm >>
    /\ UNCHANGED notPty

\* kill_session: libc::kill(-pgid, SIGTERM) returns term_result; a failure is only
\* logged.  The shell may die of the signal or ignore it (ChildExit).
KillTerm(k, term_result) ==
    /\ kpc[k] = "removed"
    /\ ksig' = [ksig EXCEPT ![k] = Append(@, << PtySession(karg[k][1]).pgid, "SIGTERM" >>)]
    /\ kterm' = [kterm EXCEPT ![k] = IF term_result = 0 THEN "sent" ELSE "failed"]
    /\ kpc' = [kpc EXCEPT ![k] = "waiting"]
    /\ UNCHANGED << next_id, sessions, pty, spc, sfetched, sseen, sres, issued,
                    karg, kres, nremoved, pops >>
    /\ UNCHANGED notPty

\* kill_session: the poll loop.  libc::kill(pid, 0) fails once the process is gone
\* (it has exited and has been reaped), and the loop returns; a child that runs,
\* or has exited and is still a zombie (spawn_shell drops the Child without waiting
\* for it), is there at every poll, the 3 s timeout elapses and the group gets SIGKILL.
KillWait(k, gone) ==
    /\ kpc[k] = "waiting"
    /\ LET id == karg[k][1] IN
       /\ gone => pty[id].child = "dead"
       /\ IF gone
          THEN UNCHANGED << ksig, pty >>
          ELSE /\ ksig' = [ksig EXCEPT ![k] = Append(@, << PtySession(id).pgid, "SIGKILL" >>)]
               /\ pty' = [pty EXCEPT ![id].child = "dead"]
    /\ kpc' = [kpc EXCEPT ![k] = "cleanup"]
    /\ UNCHANGED << next_id, sessions, spc, sfetched, sseen, sres, issued,
                    karg, kterm, kres, nremoved, pops >>
    /\ UNCHANGED notPty

\* kill_session: shutdown.notify_one(); drop(writer); drop(master).
KillCleanup(k) ==
    /\ kpc[k] = "cleanup"
    /\ pty' = [pty EXCEPT ![karg[k][1]].notified = TRUE, ![karg[k][1]].master_open = FALSE]
    /\ kpc' = [kpc EXCEPT ![k] = "join"]
    /\ UNCHANGED << next_id, sessions, spc, sfetched, sseen, sres, issued,
                    karg, ksig, kres, nremoved, pops, kterm >>
    /\ UNCHANGED notPty

\* A kill_session that returns without joining the reader thread.
KillJoin_NoWait(k) ==
    /\ kpc[k] = "join"
    /\ kres' = [kres EXCEPT ![k] = "Ok"]
    /\ kpc' = [kpc EXCEPT ![k] = "returned"]
    /\ UNCHANGED << next_id, sessions, pty, spc, sfetched, sseen, sres, issued,
                    karg, ksig, nremoved, pops, kterm >>
    /\ UNCHANGED notPty

\* kill_session: join the reader thread; Ok(()).
KillJoin(k) ==
    /\ kpc[k] = "join"
    /\ pty[karg[k][1]].reader = "exited"
    /\ kres' = [kres EXCEPT ![k] = "Ok"]
    /\ kpc' = [kpc EXCEPT ![k] = "returned"]
    /\ UNCHANGED << next_id, sessions, pty, spc, sfetched, sseen, sres, issued,
                    karg, ksig, nremoved, pops, kterm >>
    /\ UNCHANGED notPty

\* The kill_session command has answered; the task ends.
KillReturn(k) ==
    /\ kpc[k] = "returned"
    /\ kpc' = [kpc EXCEPT ![k] = "idle"]
    /\ karg' = [karg EXCEPT ![k] = << 0, FALSE >>]
    /\ ksig' = [ksig EXCEPT ![k] = << >>]
    /\ kterm' = [kterm EXCEPT ![k] = ""]
    /\ kres' = [kres EXCEPT ![k] = ""]
    /\ UNCHANGED << next_id, sessions, pty, spc, sfetched, sseen, sres, issued, nremoved, pops >>
    /\ UNCHANGED notPty

PtyNext ==
    \/ \E t \in Spawners : SpawnAlloc(t)
    \/ \E t \in Spawners, failed \in SpawnSteps \cup {"none"} : SpawnCreate(t, failed)
    \/ \E t \in Spawners : SpawnInsert(t)
    \/ \E t \in Spawners : SpawnReturn(t)
    \/ \E id \in DOMAIN pty : ChildExit(id)
    \/ \E id \in DOMAIN pty : ReaderRead(id)
    \/ \E id \in DOMAIN pty : ReaderEof(id)
    \/ \E id \in DOMAIN pty : ReaderSend(id)
    \/ \E id \in DOMAIN pty : EmitterRecv(id)
    \/ \E id \in DOMAIN pty : EmitterExit(id)
    \/ \E k \in Killers, id \in 1..(next_id - 1) : KillCall(k, id)
    \/ \E k \in Killers : KillRemove(k)
    \/ \E k \in Killers, term_result \in {0, -1} : KillTerm(k, term_result)
    \/ \E k \in Killers, gone \in BOOLEAN : KillWait(k, gone)
    \/ \E k \in Killers : KillCleanup(k)
    \/ \E k \in Killers : KillJoin(k)
    \/ \E k \in Killers : KillReturn(k)

(***************************************************************************)
(*                  .mcp.json WRITER (mcp_config_writer.rs)                *)
(***************************************************************************)
\* Bound of the config writer model: the write/remove calls of one run.
MaxMcpOps == 3

McpCallers == {1, 2}

\* Two path strings that name the one working directory.
WorkingDirs == {"/work/repo", "/work/repo/."}

\* A server name is the sequence of its "-"-separated parts:
\* <<"maestro", "status">> is "maestro-status".
MAESTRO_STATUS == << "maestro", "status" >>

\* A file that is missing, one that is not JSON, and a JSON document with its
\* mcpServers object and whether it has other top-level keys.
Absent == [kind |-> "absent", servers |-> EmptyMap, extra |-> FALSE]

Invalid == [kind |-> "invalid", servers |-> EmptyMap, extra |-> FALSE]

Json(servers, extra) == [kind |-> "json", servers |-> servers, extra |-> extra]

\* The contents .mcp.json may have before the first call.
InitialFiles ==
    { Absent, Invalid,
      Json((<< "github" >> :> "user"), TRUE),
      Json((<< "github" >> :> "user") @@ (<< "docs" >> :> "user")
           @@ (MAESTRO_STATUS :> "session-9") @@ (<< "maestro", "notes" >> :> "user")
           @@ (<< "maestro" >> :> "legacy"), FALSE) }

should_remove_server(name) ==
    \/ name = MAESTRO_STATUS
    \/ Len(name) > 2 /\ SubSeq(name, 1, 2) = MAESTRO_STATUS
    \/ Len(name) > 1 /\ name[1] = "maestro" /\ name # MAESTRO_STATUS
    \/ name = << "maestro" >>

\* The mcp_servers map write_session_mcp_config builds before it takes the lock.
NewServers(arg, found) ==
    (IF found THEN (MAESTRO_STATUS :> << "session", arg.session_id >>) ELSE EmptyMap)
        @@ arg.custom

\* The entries of m that should_remove_server leaves in place.
Retain(m) == [n \in { x \in DOMAIN m : ~should_remove_server(x) } |-> m[n]]

\* A merge that forgets what the file held.
merge_with_existing_Overwrite(file, new_servers) == << "Ok", Json(new_servers, FALSE) >>

merge_with_existing(file, new_servers) ==
    CASE file.kind = "absent" -> << "Ok", Json(new_servers, FALSE) >>
      [] file.kind = "invalid" -> << "Err", "Failed to parse existing .mcp.json" >>
      [] OTHER -> << "Ok", Json(new_servers @@ Retain(file.servers), FALSE) >>

\* remove_session_mcp_config between the lock and atomic_write: read, parse, remove
\* the maestro entries in place.
RemoveEntries(file) ==
    CASE file.kind = "absent" -> << "Err", "Failed to read .mcp.json" >>
      [] file.kind = "invalid" -> << "Err", "Failed to parse .mcp.json" >>
      [] OTHER -> << "Ok", Json(Retain(file.servers), file.extra) >>

\* The content a call computes from the file it reads.
Computed(file, arg, found) ==
    IF arg.op = "write" THEN merge_with_existing(file, NewServers(arg, found))
    ELSE RemoveEntries(file)

\* The file after the call has run alone on `file`.
RunAlone(file, arg, found) ==
    IF (arg.op = "remove" /\ file.kind = "absent") \/ Computed(file, arg, found)[1] = "Err"
    THEN file
    ELSE Computed(file, arg, found)[2]

NoCall == [op |-> "none", working_dir |-> "", session_id |-> 0, custom |-> EmptyMap]

McpCalls ==
    [op : {"write"}, working_dir : WorkingDirs, session_id : {1, 2},
     custom : {EmptyMap, (<< "docs" >> :> "custom")}]
    \cup [op : {"remove"}, working_dir : WorkingDirs, session_id : {1}, custom : {EmptyMap}]

\* The writer before any call, the directory holding one of `files` and the sidecar
\* binary being found or not as `found` allows.
McpInit(files, found) ==
    /\ mfile \in files
    /\ mtemp = None
    /\ mcp_bin \in found
    /\ DIR_LOCKS = [d \in WorkingDirs |-> 0]
    /\ mpc = [c \in McpCallers |-> "idle"]
    /\ marg = [c \in McpCallers |-> NoCall]
    /\ mres = [c \in McpCallers |-> ""]
    /\ mwith = [c \in McpCallers |-> {}]
    /\ mpaths = {}
    /\ mlin = mfile
    /\ morig = mfile
    /\ mops = 0

\* The calls that have been made and have not returned yet.
InProgress == { c \in McpCallers : mpc[c] \notin {"idle", "done"} }

\* The call finishes with result r; the lock guard, if held, is dropped.
Finish(c, r) ==
    /\ mpc' = [mpc EXCEPT ![c] = "done"]
    /\ mres' = [mres EXCEPT ![c] = r]
    /\ DIR_LOCKS' = [d \in WorkingDirs |-> IF DIR_LOCKS[d] = c THEN 0 ELSE DIR_LOCKS[d]]
    /\ mlin' = RunAlone(mlin, marg[c], mcp_bin)

\* A write_session_mcp_config or remove_session_mcp_config command is invoked.
McpCall(c, arg) ==
    /\ mpc[c] = "idle"
    /\ FirstFree(mpc, c)
    /\ mops < MaxMcpOps
    /\ mops' = mops + 1
    /\ marg' = [marg EXCEPT ![c] = arg]
    /\ mwith' = [mwith EXCEPT ![c] = InProgress]
    /\ mpaths' = mpaths \cup {arg.working_dir}
    /\ mpc' = [mpc EXCEPT ![c] = IF arg.op = "write" THEN "built" ELSE "called"]
    /\ UNCHANGED << mfile, mtemp, mcp_bin, morig, DIR_LOCKS, mres, mlin >>
    /\ UNCHANGED notMcp

\* remove_session_mcp_config: if !mcp_path.exists() { return Ok(()) }.
McpExists(c) ==
    /\ mpc[c] = "called"
    /\ IF mfile.kind = "absent"
       THEN Finish(c, "Ok")
       ELSE /\ mpc' = [mpc EXCEPT ![c] = "built"]
            /\ UNCHANGED << DIR_LOCKS, mres, mlin >>
    /\ UNCHANGED << mfile, mtemp, mcp_bin, morig, marg, mwith, mpaths, mops >>
    /\ UNCHANGED notMcp

\* A lock() that does not wait for the holder.
McpLock_NoWait(c) ==
    /\ mpc[c] = "built"
    /\ DIR_LOCKS' = [DIR_LOCKS EXCEPT ![marg[c].working_dir] = c]
    /\ mpc' = [mpc EXCEPT ![c] = "locked"]
    /\ UNCHANGED << mfile, mtemp, mcp_bin, morig, marg, mres, mwith, mpaths, mlin, mops >>
    /\ UNCHANGED notMcp

\* dir_lock(working_dir).lock().await
McpLock(c) ==
    /\ mpc[c] = "built"
    /\ DIR_LOCKS[marg[c].working_dir] = 0
    /\ DIR_LOCKS' = [DIR_LOCKS EXCEPT ![marg[c].working_dir] = c]
    /\ mpc' = [mpc EXCEPT ![c] = "locked"]
    /\ UNCHANGED << mfile, mtemp, mcp_bin, morig, marg, mres, mwith, mpaths, mlin, mops >>
    /\ UNCHANGED notMcp

\* Read and parse the file, compute the new content and write it to the temp file
\* (the first half of atomic_write); or return the read/parse error.
McpReadMerge(c) ==
    /\ mpc[c] = "locked"
    /\ IF Computed(mfile, marg[c], mcp_bin)[1] = "Err"
       THEN /\ Finish(c, "Err")
            /\ UNCHANGED mtemp
       ELSE /\ mtemp' = Some(Computed(mfile, marg[c], mcp_bin)[2])
            /\ mpc' = [mpc EXCEPT ![c] = "merged"]
            /\ UNCHANGED << DIR_LOCKS, mres, mlin >>
    /\ UNCHANGED << mfile, mcp_bin, morig, marg, mwith, mpaths, mops >>
    /\ UNCHANGED notMcp

\* atomic_write: rename the temp file over .mcp.json (an error when the temp file is
\* no longer there); the call returns and drops the lock guard.
McpRename(c) ==
    /\ mpc[c] = "merged"
    /\ IF IsSome(mtemp)
       THEN /\ mfile' = Unwrap(mtemp)
            /\ mtemp' = None
            /\ Finish(c, "Ok")
       ELSE /\ Finish(c, "Err")
            /\ UNCHANGED << mfile, mtemp >>
    /\ UNCHANGED << mcp_bin, morig, marg, mwith, mpaths, mops >>
    /\ UNCHANGED notMcp

\* The command has answered; the task ends.
McpReturn(c) ==
    /\ mpc[c] = "done"
    /\ mpc' = [mpc EXCEPT ![c] = "idle"]
    /\ marg' = [marg EXCEPT ![c] = NoCall]
    /\ mres' = [mres EXCEPT ![c] = ""]
    /\ mwith' = [mwith EXCEPT ![c] = {}]
    /\ UNCHANGED << mfile, mtemp, mcp_bin, morig, DIR_LOCKS, mpaths, mlin, mops >>
    /\ UNCHANGED notMcp

McpNext ==
    \/ \E c \in McpCallers, arg \in McpCalls : McpCall(c, arg)
    \/ \E c \in McpCallers : McpExists(c)
    \/ \E c \in McpCallers : McpLock(c)
    \/ \E c \in McpCallers : McpReadMerge(c)
    \/ \E c \in McpCallers : McpRename(c)
    \/ \E c \in McpCallers : McpReturn(c)

(***************************************************************************)
(*                 STREAMING UTF-8 DECODER (process_manager.rs)            *)
(***************************************************************************)
\* Bound of the decoder model: the length of the byte sequence.
MaxBytes == 4

\* 'a', the lead bytes of a 2-, 3- and 4-byte code point, a continuation byte and a
\* byte that is never valid.
Bytes == {97, 195, 226, 241, 130, 255}

\* char::REPLACEMENT_CHARACTER, U+FFFD.  A string is the sequence of its code points.
REPLACEMENT_CHARACTER == 65533

IsCont(b) == b >= 128 /\ b <= 191

\* The length of the code point a lead byte announces; 0 for a byte that cannot lead.
Width(b) ==
    IF b < 128 THEN 1
    ELSE IF b >= 194 /\ b <= 223 THEN 2
    ELSE IF b >= 224 /\ b <= 239 THEN 3
    ELSE IF b >= 240 /\ b <= 244 THEN 4
    ELSE 0

\* The second byte a lead byte admits (no overlong forms, no surrogates, <= U+10FFFF).
SecondOk(b1, b2) ==
    CASE b1 = 224 -> b2 >= 160 /\ b2 <= 191
      [] b1 = 237 -> b2 >= 128 /\ b2 <= 159
      [] b1 = 240 -> b2 >= 144 /\ b2 <= 191
      [] b1 = 244 -> b2 >= 128 /\ b2 <= 143
      [] OTHER -> IsCont(b2)

\* What stands at data[i]: a code point ("ok", its length), an invalid sequence
\* ("invalid", the error length) or the start of a code point cut off by the end of
\* the data ("incomplete").
First(data, i) ==
    LET w == Width(data[i])
        n == Len(data)
    IN  IF w = 0 THEN << "invalid", 1 >>
        ELSE IF w = 1 THEN << "ok", 1 >>
        ELSE IF i + 1 > n THEN << "incomplete", 0 >>
        ELSE IF ~SecondOk(data[i], data[i + 1]) THEN << "invalid", 1 >>
        ELSE IF w = 2 THEN << "ok", 2 >>
        ELSE IF i + 2 > n THEN << "incomplete", 0 >>
        ELSE IF ~IsCont(data[i + 2]) THEN << "invalid", 2 >>
        ELSE IF w = 3 THEN << "ok", 3 >>
        ELSE IF i + 3 > n THEN << "incomplete", 0 >>
        ELSE IF ~IsCont(data[i + 3]) THEN << "invalid", 3 >>
        ELSE << "ok", 4 >>

\* The code point encoded by the w bytes at data[i].
CodePoint(data, i, w) ==
    CASE w = 1 -> data[i]
      [] w = 2 -> (data[i] - 192) * 64 + (data[i + 1] - 128)
      [] w = 3 -> (data[i] - 224) * 4096 + (data[i + 1] - 128) * 64 + (data[i + 2] - 128)
      [] OTHER -> (data[i] - 240) * 262144 + (data[i + 1] - 128) * 4096
                  + (data[i + 2] - 128) * 64 + (data[i + 3] - 128)

\* std::str::from_utf8(data), from index i on: << "ok", len, 0 >>, or the Utf8Error
\* << "invalid" | "incomplete", valid_up_to, error_len >>.
RECURSIVE from_utf8(_, _)
from_utf8(data, i) ==
    IF i > Len(data) THEN << "ok", Len(data), 0 >>
    ELSE IF First(data, i)[1] = "ok" THEN from_utf8(data, i + First(data, i)[2])
    ELSE << First(data, i)[1], i - 1, First(data, i)[2] >>

\* String::from_utf8_lossy(data), from index i on.
RECURSIVE from_utf8_lossy(_, _)
from_utf8_lossy(data, i) ==
    IF i > Len(data) THEN << >>
    ELSE CASE First(data, i)[1] = "ok" ->
                << CodePoint(data, i, First(data, i)[2]) >>
                    \o from_utf8_lossy(data, i + First(data, i)[2])
           [] First(data, i)[1] = "invalid" ->
                << REPLACEMENT_CHARACTER >> \o from_utf8_lossy(data, i + First(data, i)[2])
           [] OTHER -> << REPLACEMENT_CHARACTER >>

find_valid_boundary(data) ==
    LET e == from_utf8(data, 1)
    IN  CASE e[1] = "ok" -> Len(data)
          [] e[1] = "incomplete" -> e[2]
          [] OTHER -> e[2] + e[3]

\* Utf8Decoder::decode: << the string returned, the new `incomplete` >>.
decode(buffered, input) ==
    LET data == buffered \o input
        valid_up_to == find_valid_boundary(data)
    IN  << from_utf8_lossy(SubSeq(data, 1, valid_up_to), 1),
           IF valid_up_to < Len(data) THEN SubSeq(data, valid_up_to + 1, Len(data))
           ELSE << >> >>

\* A new decoder, and a byte sequence of at most `longest` bytes to come.
Utf8Init(longest) ==
    /\ incomplete = << >>
    /\ utf8_input \in UNION { [1..n -> Bytes] : n \in 0..longest }
    /\ utf8_pos = 0
    /\ utf8_out = << >>

\* The emitter task receives the next n bytes as one chunk and decodes them.
Decode(n) ==
    /\ utf8_pos + n <= Len(utf8_input)
    /\ LET r == decode(incomplete, SubSeq(utf8_input, utf8_pos + 1, utf8_pos + n))
       IN  /\ utf8_out' = utf8_out \o r[1]
           /\ incomplete' = r[2]
    /\ utf8_pos' = utf8_pos + n
    /\ UNCHANGED utf8_input
    /\ UNCHANGED notUtf8

Utf8Next == \E n \in 1..MaxBytes : Decode(n)

(***************************************************************************)
(*     WORKTREE PREPARATION (commands/worktree.rs, worktree_manager.rs)    *)
(***************************************************************************)
\* Bound of the worktree model: the prepare calls of one run.
MaxPrepares == 2

Preparers == {1, 2}

\* A branch name is the sequence of its parts, "/" and "-" being parts of their own:
\* << "origin", "/", "topic" >> is "origin/topic".
MAIN == << "main" >>

FEAT == << "feat" >>

TOPIC == << "topic" >>

ORIGIN_TOPIC == << "origin", "/", "topic" >>

\* The `branch` arguments of the calls.
BranchArgs == { None, Some(<< >>), Some(MAIN), Some(FEAT), Some(TOPIC), Some(ORIGIN_TOPIC) }

\* The repository's main worktree, and a worktree the user added by hand outside the
\* managed directory.  Either can be the project a session is opened on.
MainPath == << "repo" >>

ElsewherePath == << "elsewhere" >>

OpenedPaths == { MainPath, ElsewherePath }

\* The repositories a run may start from: branches, worktrees, config.
Repositories ==
    { [locals |-> {MAIN, FEAT}, remotes |-> {ORIGIN_TOPIC},
       worktrees |-> (MainPath :> Some(MAIN)), init_default |-> None],
      [locals |-> {MAIN}, remotes |-> {},
       worktrees |-> (MainPath :> Some(MAIN)), init_default |-> None],
      [locals |-> {MAIN, FEAT, TOPIC}, remotes |-> {ORIGIN_TOPIC},
       worktrees |-> (MainPath :> Some(FEAT)) @@ (ElsewherePath :> Some(TOPIC)),
       init_default |-> Some(MAIN)],
      [locals |-> {FEAT}, remotes |-> {},
       worktrees |-> (MainPath :> None), init_default |-> Some(MAIN)],
      [locals |-> {FEAT, TOPIC}, remotes |-> {},
       worktrees |-> (MainPath :> Some(FEAT)), init_default |-> Some(MAIN)] }

\* sanitize_branch: the unsafe characters become "-".
sanitize_branch(branch) ==
    IF branch = << >> \/ branch = << "." >> \/ branch = << ".." >>
    THEN << "unnamed-branch" >>
    ELSE [i \in 1..Len(branch) |->
            IF branch[i] \in {"/", "\\", ":", "*", "?", "\"", "<", ">", "|"}
            THEN "-" ELSE branch[i]]

\* WorktreeManager::worktree_path: <base>/<hash of the repo path>/<sanitized branch>;
\* the repo path stands for its hash.
worktree_path(repo_path, branch) == << "worktrees" >> \o repo_path \o sanitize_branch(branch)

\* branch.find('/'): the index of the first "/", 0 when there is none.
FindSlash(branch) ==
    IF \E i \in 1..Len(branch) : branch[i] = "/"
    THEN CHOOSE i \in 1..Len(branch) :
            branch[i] = "/" /\ \A j \in 1..(i - 1) : branch[j] # "/"
    ELSE 0

resolve_local_branch_name(branch, local_branches) ==
    IF branch \in local_branches THEN branch
    ELSE IF FindSlash(branch) > 0 THEN SubSeq(branch, FindSlash(branch) + 1, Len(branch))
    ELSE branch

\* WorktreeInfo::is_main_worktree: the entry of the repository's main worktree, as
\* opposed to a linked one.
is_main_worktree(wt) == wt.path = MainPath

\* WorktreeManager::list_managed's test: the path starts with worktree_base_dir().
IsManaged(path) == Len(path) >= 1 /\ path[1] = "worktrees"

\* git worktree list: every worktree of the repository, wherever it is run.
worktree_list == { [path |-> q, branch |-> worktrees[q]] : q \in DOMAIN worktrees }

\* get_fallback_branch(avoid): init.defaultBranch, else main/master/develop, else any
\* other local branch, else None.  A set, for the "any other" case.
get_fallback_branch(avoid_branch) ==
    IF IsSome(init_default) /\ Unwrap(init_default) # avoid_branch THEN { init_default }
    ELSE IF \E c \in { MAIN, << "master" >>, << "develop" >> } :
                c # avoid_branch /\ c \in locals
    THEN { Some(IF MAIN # avoid_branch /\ MAIN \in locals THEN MAIN
                ELSE IF << "master" >> # avoid_branch /\ << "master" >> \in locals
                THEN << "master" >> ELSE << "develop" >>) }
    ELSE IF locals \ { avoid_branch } # {} THEN { Some(b) : b \in locals \ { avoid_branch } }
    ELSE { None }

\* The branch is checked out in some worktree.
CheckedOut(branch) == \E wt \in worktree_list : wt.branch = Some(branch)

\* A failure outcome is the project path with a warning ...
Fallback(project_path, warning) ==
    << "Ok", [working_directory |-> project_path, worktree_path |-> None,
              created |-> FALSE, warning |-> warning] >>

\* ... a success is the worktree's path.
InWorktree(path, created, warning) ==
    << "Ok", [working_directory |-> path, worktree_path |-> Some(path),
              created |-> created, warning |-> warning] >>

WtInit(repositories) ==
    /\ \E r \in repositories :
          /\ locals = r.locals
          /\ remotes = r.remotes
          /\ worktrees = r.worktrees
          /\ init_default = r.init_default
    /\ wpc = [p \in Preparers |-> "idle"]
    /\ wproject = [p \in Preparers |-> MainPath]
    /\ wbranch = [p \in Preparers |-> None]
    /\ wlocal = [p \in Preparers |-> << >>]
    /\ wsnap = [p \in Preparers |-> {}]
    /\ wwarn = [p \in Preparers |-> None]
    /\ wres = [p \in Preparers |-> None]
    /\ wgit = [p \in Preparers |-> TRUE]
    /\ wsolo = [p \in Preparers |-> TRUE]
    /\ wmain = [p \in Preparers |-> FALSE]
    /\ wops = 0

\* prepare_worktree_inner up to list_branches and resolve_local_branch_name; a failed
\* list_branches counts as an empty list.
PrepCall(p, project_path, branch, git_ok) ==
    /\ wpc[p] = "idle"
    /\ FirstFree(wpc, p)
    /\ wops < MaxPrepares
    /\ project_path \in DOMAIN worktrees
    /\ wops' = wops + 1
    /\ wproject' = [wproject EXCEPT ![p] = project_path]
    /\ wbranch' = [wbranch EXCEPT ![p] = branch]
    /\ IF branch = None \/ branch = Some(<< >>)
       THEN /\ wres' = [wres EXCEPT ![p] = Some(Fallback(project_path, None))]
            /\ wpc' = [wpc EXCEPT ![p] = "returned"]
            /\ UNCHANGED << wlocal, wsnap >>
       ELSE /\ wsnap' = [wsnap EXCEPT ![p] = IF git_ok THEN locals \cup remotes ELSE {}]
            /\ wlocal' = [wlocal EXCEPT ![p] =
                             resolve_local_branch_name(Unwrap(branch),
                                                       IF git_ok THEN locals ELSE {})]
            /\ wpc' = [wpc EXCEPT ![p] = "resolved"]
            /\ UNCHANGED wres
    /\ wgit' = [wgit EXCEPT ![p] = git_ok \/ branch \in { None, Some(<< >>) }]
    /\ wsolo' = [q \in Preparers |->
                    IF q = p THEN \A r \in Preparers \ {p} : wpc[r] \in {"idle", "returned"}
                    ELSE wsolo[q] /\ wpc[q] \in {"idle", "returned"}]
    /\ wmain' = [wmain EXCEPT ![p] =
                     /\ IsSome(branch) /\ git_ok
                     /\ worktrees[project_path] =
                           Some(resolve_local_branch_name(Unwrap(branch), locals))
                     /\ locals \ { resolve_local_branch_name(Unwrap(branch), locals) } # {}]
    /\ UNCHANGED << locals, remotes, worktrees, init_default, wwarn >>
    /\ UNCHANGED notWt

\* worktree_list: reuse a worktree other than the main one that has the branch.
PrepReuse(p, git_ok) ==
    /\ wpc[p] = "resolved"
    /\ LET found == { wt \in worktree_list :
                        ~is_main_worktree(wt) /\ wt.branch = Some(wlocal[p]) }
       IN  IF git_ok /\ found # {}
           THEN /\ \E wt \in found :
                      wres' = [wres EXCEPT ![p] = Some(InWorktree(wt.path, FALSE, None))]
                /\ wpc' = [wpc EXCEPT ![p] = "returned"]
           ELSE /\ wpc' = [wpc EXCEPT ![p] = "listed"]
                /\ UNCHANGED wres
    /\ wgit' = [wgit EXCEPT ![p] = @ /\ git_ok]
    /\ UNCHANGED << locals, remotes, worktrees, init_default,
                    wproject, wbranch, wlocal, wsnap, wwarn, wsolo, wops, wmain >>
    /\ UNCHANGED notWt

\* current_branch in the project directory; when it is the target, check out a fallback
\* branch there or detach HEAD, a failure of which is only a warning.
PrepFree(p, git_ok) ==
    /\ wpc[p] = "listed"
    /\ wpc' = [wpc EXCEPT ![p] = "freed"]
    /\ IF git_ok /\ worktrees[wproject[p]] = Some(wlocal[p])
       THEN \E fallback \in get_fallback_branch(wlocal[p]), switched \in BOOLEAN :
               IF switched /\ (IsSome(fallback) =>
                                  Unwrap(fallback) \in locals /\ ~CheckedOut(Unwrap(fallback)))
               THEN /\ worktrees' = [worktrees EXCEPT ![wproject[p]] = fallback]
                    /\ UNCHANGED << wwarn, wgit >>
               ELSE /\ wwarn' = [wwarn EXCEPT ![p] = Some("Could not switch main repo")]
                    /\ wgit' = [wgit EXCEPT ![p] = @ /\ switched]
                    /\ UNCHANGED worktrees
       ELSE /\ wgit' = [wgit EXCEPT ![p] = @ /\ git_ok]
            /\ UNCHANGED << worktrees, wwarn >>
    /\ UNCHANGED << locals, remotes, init_default,
                    wproject, wbranch, wlocal, wsnap, wres, wsolo, wops, wmain >>
    /\ UNCHANGED notWt

\* ensure_local_branch: create the local branch when `branches` does not list it.
PrepEnsure(p, git_ok) ==
    /\ wpc[p] = "freed"
    /\ IF wlocal[p] \in wsnap[p] \ remotes
       THEN /\ wpc' = [wpc EXCEPT ![p] = "ensured"]
            /\ UNCHANGED << locals, wres, wgit >>
       ELSE IF git_ok /\ wlocal[p] # << >> /\ wlocal[p] \notin locals
       THEN /\ locals' = locals \cup { wlocal[p] }
            /\ wpc' = [wpc EXCEPT ![p] = "ensured"]
            /\ UNCHANGED << wres, wgit >>
       ELSE /\ wres' = [wres EXCEPT ![p] =
                           Some(Fallback(wproject[p], Some("Failed to create branch")))]
            /\ wpc' = [wpc EXCEPT ![p] = "returned"]
            /\ wgit' = [wgit EXCEPT ![p] = @ /\ git_ok]
            /\ UNCHANGED locals
    /\ UNCHANGED << remotes, worktrees, init_default,
                    wproject, wbranch, wlocal, wsnap, wwarn, wsolo, wops, wmain >>
    /\ UNCHANGED notWt

\* WorktreeManager::create: refuse a branch that some worktree has checked out, else
\* git worktree add at worktree_path.
PrepCreate(p, git_ok) ==
    /\ wpc[p] = "ensured"
    /\ wpc' = [wpc EXCEPT ![p] = "returned"]
    /\ LET wt_path == worktree_path(wproject[p], wlocal[p])
       IN  IF /\ git_ok
              /\ ~CheckedOut(wlocal[p])
              /\ wlocal[p] \in locals
              /\ wt_path \notin DOMAIN worktrees
           THEN /\ worktrees' = MapInsert(worktrees, wt_path, Some(wlocal[p]))
                /\ wres' = [wres EXCEPT ![p] = Some(InWorktree(wt_path, TRUE, wwarn[p]))]
           ELSE /\ wres' = [wres EXCEPT ![p] =
                               Some(Fallback(wproject[p], Some("Failed to create worktree")))]
                /\ UNCHANGED worktrees
    /\ wgit' = [wgit EXCEPT ![p] = @ /\ git_ok]
    /\ UNCHANGED << locals, remotes, init_default,
                    wproject, wbranch, wlocal, wsnap, wwarn, wsolo, wops, wmain >>
    /\ UNCHANGED notWt

\* The prepare_session_worktree command has answered; the task ends.
PrepReturn(p) ==
    /\ wpc[p] = "returned"
    /\ wpc' = [wpc EXCEPT ![p] = "idle"]
    /\ wproject' = [wproject EXCEPT ![p] = MainPath]
    /\ wbranch' = [wbranch EXCEPT ![p] = None]
    /\ wlocal' = [wlocal EXCEPT ![p] = << >>]
    /\ wsnap' = [wsnap EXCEPT ![p] = {}]
    /\ wwarn' = [wwarn EXCEPT ![p] = None]
    /\ wres' = [wres EXCEPT ![p] = None]
    /\ wgit' = [wgit EXCEPT ![p] = TRUE]
    /\ wmain' = [wmain EXCEPT ![p] = FALSE]
    /\ UNCHANGED << locals, remotes, worktrees, init_default, wsolo, wops >>
    /\ UNCHANGED notWt

WtNext ==
    \/ \E p \in Preparers, project_path \in OpenedPaths, branch \in BranchArgs,
          git_ok \in BOOLEAN : PrepCall(p, project_path, branch, git_ok)
    \/ \E p \in Preparers, git_ok \in BOOLEAN : PrepReuse(p, git_ok)
    \/ \E p \in Preparers, git_ok \in BOOLEAN : PrepFree(p, git_ok)
    \/ \E p \in Preparers, git_ok \in BOOLEAN : PrepEnsure(p, git_ok)
    \/ \E p \in Preparers, git_ok \in BOOLEAN : PrepCreate(p, git_ok)
    \/ \E p \in Preparers : PrepReturn(p)

(***************************************************************************)
(*      SIDECAR STATUS REPORTER (maestro-mcp-server: status_reporter.rs,   *)
(*      mcp_protocol.rs)                                                   *)
(***************************************************************************)
\* Bound of the sidecar model: the JSON-RPC lines read in one run.
MaxCalls == 2

\* const MAX_RETRIES
MAX_RETRIES == 3

\* What one POST can come to: a transport error (TransportError) or the status code
\* of the response.
TransportError == 0

PostOutcomes == { TransportError, 200, 202, 304, 403, 503 }

\* StatusCode::is_success, is_client_error.
is_success(status) == 200 <= status /\ status <= 299

is_client_error(status) == 400 <= status /\ status <= 499

\* The JSON-RPC requests read from stdin: method, whether it carries an id, and the
\* tool named by a tools/call.
JsonRpcRequests ==
    { [method |-> m, has_id |-> i, name |-> ""] :
          m \in { "initialize", "ping", "notifications/initialized", "bogus" },
          i \in BOOLEAN }
    \cup { [method |-> "tools/call", has_id |-> i, name |-> n] :
              i \in BOOLEAN, n \in { "maestro_status", "other_tool" } }

\* The request makes the sidecar call report_status.
Reports(request) ==
    IF request.has_id
    THEN request.method = "tools/call" /\ request.name = "maestro_status"
    ELSE request.method = "notifications/initialized"

\* Mutant: report_status hands the last error to its caller.
AfterRetries_Propagate(err) == IF IsSome(err) THEN << "Err", Unwrap(err) >> ELSE << "Ok" >>

\* report_status after the loop: "Graceful degradation", Ok(()) whatever last_error is.
AfterRetries(err) == << "Ok" >>

\* handle_request: the response to a request, given what report_status returned
\* (None: not called).  None: nothing is written (a notification).
JsonRpcResponse(request, reported) ==
    IF ~request.has_id THEN None
    ELSE CASE request.method \in { "initialize", "tools/list", "ping" } ->
                  Some(<< "result", request.method >>)
           [] request.method = "tools/call" ->
                  IF request.name # "maestro_status"
                  THEN Some(<< "result", "Unknown tool" >>)
                  ELSE IF Unwrap(reported)[1] = "Ok"
                  THEN Some(<< "result", "Status reported" >>)
                  ELSE Some(<< "error", -32000 >>)
           [] OTHER -> Some(<< "error", -32601 >>)

RepInit(urls) ==
    /\ status_url \in urls
    /\ jpc = "idle"
    /\ jreq = None
    /\ attempt = 0
    /\ last_error = None
    /\ posts = << >>
    /\ jreport = None
    /\ jresp = None
    /\ jcalls = 0

\* run reads a line; handle_request answers it at once unless it calls report_status
\* with a status URL configured, in which case the retry loop is entered.
HandleRequest(request) ==
    /\ jpc = "idle"
    /\ jcalls < MaxCalls
    /\ jcalls' = jcalls + 1
    /\ jreq' = Some(request)
    /\ posts' = << >>
    /\ attempt' = 0
    /\ last_error' = None
    /\ IF Reports(request) /\ IsSome(status_url)
       THEN /\ jpc' = "posting"
            /\ jreport' = None
            /\ jresp' = None
       ELSE /\ jpc' = "responded"
            /\ jreport' = IF Reports(request) THEN Some(<< "Ok" >>) ELSE None
            /\ jresp' = JsonRpcResponse(request, jreport')
    /\ UNCHANGED status_url
    /\ UNCHANGED notRep

\* One turn of report_status's loop: POST, look at the outcome, return or go on; after
\* the last turn report_status returns and handle_request answers.
Post(outcome) ==
    /\ jpc = "posting"
    /\ posts' = Append(posts, outcome)
    /\ LET returns == outcome # TransportError
                          /\ (is_success(outcome) \/ outcome = 202 \/ is_client_error(outcome))
           error == IF returns THEN last_error ELSE Some(outcome)
           over == returns \/ attempt + 1 = MAX_RETRIES
       IN  /\ last_error' = error
           /\ attempt' = IF returns THEN attempt ELSE attempt + 1
           /\ jpc' = IF over THEN "responded" ELSE "posting"
           /\ jreport' = IF returns THEN Some(<< "Ok" >>)
                         ELSE IF over THEN Some(AfterRetries(error)) ELSE None
           /\ jresp' = IF over THEN JsonRpcResponse(Unwrap(jreq), jreport') ELSE None
    /\ UNCHANGED << status_url, jreq, jcalls >>
    /\ UNCHANGED notRep

\* The response, if any, has been written; run reads the next line.
NextLine ==
    /\ jpc = "responded"
    /\ jpc' = "idle"
    /\ jreq' = None
    /\ jreport' = None
    /\ jresp' = None
    /\ UNCHANGED << status_url, attempt, last_error, posts, jcalls >>
    /\ UNCHANGED notRep

RepNext ==
    \/ \E request \in JsonRpcRequests : HandleRequest(request)
    \/ \E outcome \in PostOutcomes : Post(outcome)
    \/ NextLine

(***************************************************************************)
(*      SESSION REGISTRY AND FRONT-END COMMANDS (session_manager.rs,       *)
(*            commands/session.rs, commands/terminal.rs)                   *)
(***************************************************************************)
\* Bound of the session-command model: the calls of every kind (spawn_shell,
\* register_session, registry calls, remove_sessions_for_project) the front end makes
\* in one run.
MaxSessionCalls == 4

SessionCalls == pops + nops + cops

\* What a step of the registry or of a command leaves alone.
notCmd == << statusVars, ptyVars, mcpVars, utf8Vars, wtVars, repVars, pathVars >>

regVars == << registry, clast >>

xVars == << xpc, xpath, xremoved, xi, xdone >>

zVars == << winsize, zlast >>

qVars == << qpc, qpid, qroot, qsig, qres >>

gVars == << gpc, gpath, gids, gout, gnext >>

\* The threads that call SessionManager::remove_sessions_for_project.
RegCallers == {1, 2}

\* The mode the model's create_session calls pass.
AiModes == {"Claude"}

\* The status and the branch the model's update_status and assign_branch calls pass.
NewStatuses == {"Working"}

NewBranches == {"feat"}

NewWorktreePaths == {None, Some("/worktrees/feat")}

\* project_path arguments: the canonical paths of two project directories, and a path
\* that does not exist.
MissingPath == "/project/missing"

CommandPaths == ProjectPaths \cup {MissingPath}

\* std::fs::canonicalize: the model's existing paths are canonical already.
Canonicalize(path) == IF path \in ProjectPaths THEN Some(path) ELSE None

\* The record create_session builds.
SessionConfig(id, mode, project_path) ==
    [ id |-> id, mode |-> mode, branch |-> None, status |-> "Starting",
      worktree_path |-> None, project_path |-> project_path ]

\* A create_session that inserts whether or not the id is there.
create_session_Insert(m, id, mode, project_path) ==
    << << "Ok", SessionConfig(id, mode, project_path) >>,
       MapInsert(m, id, SessionConfig(id, mode, project_path)) >>

\* SessionManager::create_session on the map m: <<result, the map afterwards>>.
create_session(m, id, mode, project_path) ==
    IF id \in DOMAIN m
    THEN << << "Err", m[id] >>, m >>
    ELSE << << "Ok", SessionConfig(id, mode, project_path) >>,
            MapInsert(m, id, SessionConfig(id, mode, project_path)) >>

\* SessionManager::get_session.
get_session(m, id) == MapGet(m, id)

\* SessionManager::update_status: <<result, the map afterwards>>.
update_status(m, id, status) ==
    IF id \in DOMAIN m
    THEN << TRUE, [m EXCEPT ![id].status = status] >>
    ELSE << FALSE, m >>

\* SessionManager::assign_branch: <<result, the map afterwards>>.
assign_branch(m, id, branch, wt_path) ==
    IF id \in DOMAIN m
    THEN << Some([m[id] EXCEPT !.branch = Some(branch), !.worktree_path = wt_path]),
            [m EXCEPT ![id].branch = Some(branch), ![id].worktree_path = wt_path] >>
    ELSE << None, m >>

\* SessionManager::remove_session: <<result, the map afterwards>>.
remove_session(m, id) == << MapGet(m, id), MapRemove(m, id) >>

\* A collection that takes every id of the map.
ids_to_remove_All(m, project_path) == DOMAIN m

\* SessionManager::remove_sessions_for_project: ids_to_remove.
ids_to_remove(m, project_path) == { id \in DOMAIN m : m[id].project_path = project_path }

\* The sequences that list the elements of S once each (a Vec collected from a DashMap
\* iteration has no guaranteed order).
Orders(S) ==
    { q \in [1..Cardinality(S) -> S] : \A i, j \in 1..Cardinality(S) : q[i] = q[j] => i = j }

NoCmd == [seq |-> 0, op |-> "none", id |-> 0, result |-> None]

\* No resize_pty command yet.
NoResize ==
    [seq |-> 0, session_id |-> 0, rows |-> 0, cols |-> 0, result |-> "", live |-> FALSE]

CmdInit ==
    /\ registry = EmptyMap
    /\ clast = NoCmd
    /\ xpc = "idle"
    /\ xpath = None
    /\ xremoved = << >>
    /\ xi = 0
    /\ xdone = {}
    /\ winsize = EmptyMap
    /\ zlast = NoResize
    /\ qpc = "idle"
    /\ qpid = 0
    /\ qroot = FALSE
    /\ qsig = << >>
    /\ qres = ""
    /\ cops = 0
    /\ gpc = [c \in RegCallers |-> "idle"]
    /\ gpath = [c \in RegCallers |-> ""]
    /\ gids = [c \in RegCallers |-> << >>]
    /\ gout = [c \in RegCallers |-> << >>]
    /\ gnext = 1

\* A SessionManager call made by a command: it takes one step (an entry or a shard of
\* the DashMap is locked for the whole of it).
RegistryCall(op, id, r) ==
    /\ SessionCalls < MaxSessionCalls
    /\ cops' = cops + 1
    /\ registry' = r[2]
    /\ clast' = [seq |-> clast.seq + 1, op |-> op, id |-> id, result |-> r[1]]
    /\ UNCHANGED << xVars, zVars, gVars, qVars >>
    /\ UNCHANGED notCmd

CreateSession(id, mode, project_path) ==
    /\ RegistryCall("create_session", id, create_session(registry, id, mode, project_path))

GetSession(id) ==
    /\ RegistryCall("get_session", id, << get_session(registry, id), registry >>)

UpdateStatus(id, status) ==
    /\ RegistryCall("update_status", id, update_status(registry, id, status))

AssignBranch(id, branch, wt_path) ==
    /\ RegistryCall("assign_branch", id, assign_branch(registry, id, branch, wt_path))

RemoveSession(id) ==
    /\ RegistryCall("remove_session", id, remove_session(registry, id))

\* remove_sessions_for_project command: canonicalize the path (an error ends the
\* command), then SessionManager::remove_sessions_for_project, whose Vec lists the
\* removed records in the order the DashMap iteration gave.
RemoveProjectCall(project_path) ==
    /\ xpc = "idle"
    /\ SessionCalls < MaxSessionCalls
    /\ cops' = cops + 1
    /\ xdone' = {}
    /\ xpath' = Canonicalize(project_path)
    /\ IF IsSome(Canonicalize(project_path))
       THEN LET ids == ids_to_remove(registry, project_path) IN
            /\ \E order \in Orders(ids) :
                  xremoved' = [i \in 1..Cardinality(ids) |-> registry[order[i]]]
            /\ registry' = [id \in DOMAIN registry \ ids |-> registry[id]]
            /\ clast' = [seq |-> clast.seq + 1, op |-> "remove_sessions_for_project",
                         id |-> 0, result |-> xremoved']
            /\ xi' = 1
            /\ xpc' = IF ids = {} THEN "returning" ELSE "config"
       ELSE /\ xpc' = "returning"
            /\ UNCHANGED << regVars, xremoved, xi >>
    /\ UNCHANGED << zVars, gVars, qVars >>
    /\ UNCHANGED notCmd

\* The session the clean-up loop is at.
CleanedSession == xremoved[xi]

\* The loop body, first half: mcp_manager.remove_session and
\* plugin_manager.remove_session (in-memory state of no concern here), then
\* remove_session_mcp_config on the session's working directory, a failure being
\* logged.  mfile is the .mcp.json of the project directory: a session with a
\* worktree_path has its file elsewhere.  No other call is writing the file.
RemoveProjectConfig ==
    /\ xpc = "config"
    /\ LET arg == [op |-> "remove", working_dir |-> "/work/repo",
                   session_id |-> CleanedSession.id, custom |-> EmptyMap] IN
       IF IsSome(CleanedSession.worktree_path)
       THEN UNCHANGED << mfile, mlin >>
       ELSE /\ mfile' = RunAlone(mfile, arg, mcp_bin)
            /\ mlin' = RunAlone(mlin, arg, mcp_bin)
    /\ xpc' = "kill"
    /\ UNCHANGED << mtemp, mcp_bin, DIR_LOCKS, mpc, marg, mres, mwith, mpaths, morig, mops >>
    /\ UNCHANGED << regVars, xpath, xremoved, xi, xdone, zVars, gVars, qVars, cops >>
    /\ UNCHANGED << statusVars, ptyVars, utf8Vars, wtVars, repVars, pathVars >>

\* The loop body, second half: process_manager.kill_session(session.id) is called; its
\* steps are those of kill_session (KillRemove .. KillJoin), run by task k.
RemoveProjectKill(k) ==
    /\ xpc = "kill"
    /\ KillCall(k, CleanedSession.id)

\* .await on that kill_session returns: an Err is logged.  The loop goes to the next
\* removed session; after the last one mcp_monitor.remove_project is called and the
\* command returns Ok(removed).
RemoveProjectKilled(k) ==
    /\ xpc = "kill"
    /\ kpc[k] = "returned"
    /\ karg[k][1] = CleanedSession.id
    /\ IF xi < Len(xremoved)
       THEN /\ xi' = xi + 1
            /\ xpc' = "config"
       ELSE /\ xpc' = "returning"
            /\ UNCHANGED xi
    /\ UNCHANGED << regVars, xpath, xremoved, xdone, zVars, gVars, qVars, cops >>
    /\ UNCHANGED notCmd

\* The kill_session future of the loop is dropped once its result has been taken.
RemoveProjectKillEnds(k) ==
    /\ xpc # "kill"
    /\ KillReturn(k)

\* The command returns: Ok(removed), or the Err of canonicalize.
RemoveProjectReturn ==
    /\ xpc = "returning"
    /\ xpc' = "returned"
    /\ xdone' = { xremoved[i].id : i \in 1..Len(xremoved) }
    /\ UNCHANGED << regVars, xpath, xremoved, xi, zVars, gVars, qVars, cops >>
    /\ UNCHANGED notCmd

\* The command has answered; the task ends.
RemoveProjectEnd ==
    /\ xpc = "returned"
    /\ xpc' = "idle"
    /\ xpath' = None
    /\ xremoved' = << >>
    /\ xi' = 0
    /\ UNCHANGED << regVars, xdone, zVars, gVars, qVars, cops >>
    /\ UNCHANGED notCmd

\* The front end calls spawn_shell and register_session to start a session.
SessionSpawn(t) ==
    /\ SessionCalls < MaxSessionCalls
    /\ SpawnAlloc(t)

SessionRegister(c, sid, project_path) ==
    /\ SessionCalls < MaxSessionCalls
    /\ RegisterInsert(c, sid, project_path)

\* The front end's session commands, with the spawn_shell and register_session
\* commands that start a session, and the PTY steps kill_session waits for; the shells
\* write no output.
SessionNext ==
    \/ \E t \in Spawners : SessionSpawn(t)
    \/ \E t \in Spawners : SpawnCreate(t, "none")
    \/ \E t \in Spawners : SpawnInsert(t)
    \/ \E t \in Spawners : SpawnReturn(t)
    \/ \E id \in DOMAIN pty : ChildExit(id)
    \/ \E id \in DOMAIN pty : ReaderEof(id)
    \/ \E c \in Callers, sid \in SessionIds, p \in ProjectPaths : SessionRegister(c, sid, p)
    \/ \E c \in Callers : RegisterTake(c)
    \/ \E c \in Callers : RegisterFlush(c)
    \/ \E c \in Callers : CallReturn(c)
    \/ \E id \in SessionIds, mode \in AiModes, p \in ProjectPaths : CreateSession(id, mode, p)
    \/ \E id \in SessionIds : GetSession(id)
    \/ \E id \in SessionIds, status \in NewStatuses : UpdateStatus(id, status)
    \/ \E id \in SessionIds, branch \in NewBranches, wt_path \in NewWorktreePaths :
          AssignBranch(id, branch, wt_path)
    \/ \E id \in SessionIds : RemoveSession(id)
    \/ \E p \in CommandPaths : RemoveProjectCall(p)
    \/ RemoveProjectConfig
    \/ \E k \in Killers : RemoveProjectKill(k)
    \/ \E k \in Killers : KillRemove(k)
    \/ \E k \in Killers, term_result \in {0, -1} : KillTerm(k, term_result)
    \/ \E k \in Killers, gone \in BOOLEAN : KillWait(k, gone)
    \/ \E k \in Killers : KillCleanup(k)
    \/ \E k \in Killers : KillJoin(k)
    \/ \E k \in Killers : RemoveProjectKilled(k)
    \/ \E k \in Killers : RemoveProjectKillEnds(k)
    \/ RemoveProjectReturn
    \/ RemoveProjectEnd

\* The create_session command for a session just spawned: the id is the one
\* ProcessManager::spawn_shell returned, and those ids only grow (next_id.fetch_add),
\* so that the registry never sees an id a second time.
CreateSpawned(mode, project_path) ==
    /\ gnext \in SessionIds
    /\ SessionCalls < MaxSessionCalls
    /\ cops' = cops + 1
    /\ gnext' = gnext + 1
    /\ LET r == create_session(registry, gnext, mode, project_path) IN
       /\ registry' = r[2]
       /\ clast' = [seq |-> clast.seq + 1, op |-> "create_session", id |-> gnext,
                    result |-> r[1]]
    /\ UNCHANGED << gpc, gpath, gids, gout, xVars, zVars, qVars >>
    /\ UNCHANGED notCmd

\* SessionManager::remove_sessions_for_project, call by call on the DashMap, as a
\* thread c runs it beside other registry calls.  First the iteration that collects
\* the ids whose record has the project path (taken in one step here).
ProjectCollect(c, project_path) ==
    /\ gpc[c] = "idle"
    /\ SessionCalls < MaxSessionCalls
    /\ cops' = cops + 1
    /\ gpc' = [gpc EXCEPT ![c] = "removing"]
    /\ gpath' = [gpath EXCEPT ![c] = project_path]
    /\ \E order \in Orders(ids_to_remove(registry, project_path)) :
          gids' = [gids EXCEPT ![c] = order]
    /\ gout' = [gout EXCEPT ![c] = << >>]
    /\ UNCHANGED << regVars, gnext, xVars, zVars, qVars >>
    /\ UNCHANGED notCmd

\* Then, for each collected id, `self.sessions.remove(&id)`: the record the map holds
\* under that id at that moment, if any, joins the result.
ProjectTake(c) ==
    /\ gpc[c] = "removing"
    /\ gids[c] # << >>
    /\ LET id == Head(gids[c]) IN
       /\ registry' = MapRemove(registry, id)
       /\ gout' = [gout EXCEPT ![c] = IF id \in DOMAIN registry
                                       THEN Append(@, registry[id]) ELSE @]
    /\ gids' = [gids EXCEPT ![c] = Tail(@)]
    /\ UNCHANGED << clast, gpc, gpath, gnext, xVars, zVars, qVars, cops >>
    /\ UNCHANGED notCmd

\* The end of the filter_map: the Vec is returned.
ProjectReturn(c) ==
    /\ gpc[c] = "removing"
    /\ gids[c] = << >>
    /\ gpc' = [gpc EXCEPT ![c] = "returned"]
    /\ UNCHANGED << regVars, gpath, gids, gout, gnext, xVars, zVars, qVars, cops >>
    /\ UNCHANGED notCmd

\* The registry under concurrent callers.
RegistryNext ==
    \/ \E mode \in AiModes, p \in ProjectPaths : CreateSpawned(mode, p)
    \/ \E id \in SessionIds : RemoveSession(id)
    \/ \E c \in RegCallers, p \in ProjectPaths : ProjectCollect(c, p)
    \/ \E c \in RegCallers : ProjectTake(c)
    \/ \E c \in RegCallers : ProjectReturn(c)

\* The <<rows, cols>> the model's resize_pty commands pass: one dimension zero, one
\* above 500, and the two ends of the accepted range.
ResizeDims == { << 0, 24 >>, << 24, 0 >>, << 501, 80 >>, << 24, 501 >>,
                << 1, 1 >>, << 500, 500 >> }

\* A resize_pty command that passes every size on to the process manager.
ValidDimensions_Any(rows, cols) == TRUE

\* The check of the resize_pty command, negated: the dimensions it lets through.
ValidDimensions(rows, cols) == ~(rows = 0 \/ cols = 0 \/ rows > 500 \/ cols > 500)

\* ProcessManager::resize_pty: the result, for the session map and PTYs as they are.
\* master.resize is an ioctl on the master, which fails on one that has been closed;
\* a session in the map holds its master open.
resize_pty(session_id, rows, cols) ==
    IF session_id \notin DOMAIN sessions THEN "SessionNotFound"
    ELSE IF ~pty[session_id].master_open THEN "ResizeFailed"
    ELSE "Ok"

\* The resize_pty command: the check of the dimensions, then ProcessManager::resize_pty
\* (synchronous; the DashMap entry is held for the whole call).
ResizePty(session_id, rows, cols) ==
    /\ pops < MaxPtyOps
    /\ pops' = pops + 1
    /\ LET r == IF ~ValidDimensions(rows, cols) THEN "ResizeFailed"
                ELSE resize_pty(session_id, rows, cols) IN
       /\ zlast' = [seq |-> zlast.seq + 1, session_id |-> session_id, rows |-> rows,
                    cols |-> cols, result |-> r, live |-> session_id \in DOMAIN sessions]
       /\ winsize' = IF r = "Ok" THEN MapInsert(winsize, session_id, << rows, cols >>)
                     ELSE winsize
    /\ UNCHANGED << next_id, sessions, pty, spc, sfetched, sseen, sres, issued,
                    kpc, karg, ksig, kterm, kres, nremoved >>
    /\ UNCHANGED << regVars, xVars, qVars, gVars, cops >>
    /\ UNCHANGED << statusVars, mcpVars, utf8Vars, wtVars, repVars, pathVars >>

\* The pids the model's kill_process commands pass: the root pids of the sessions, and
\* the pid of some other process.
OtherPid == 2001

KillPids == { PtySession(id).child_pid : id \in 1..2 } \cup {OtherPid}

\* The PTY whose shell has this pid (0: the pid is not a shell's).
ShellOf(pid) == IF pid = OtherPid THEN 0 ELSE pid - 1000

\* A kill_process command that is given no root pids.
SessionRootPids_Empty == {}

\* The kill_process command: session_root_pids, from get_all_session_pids.
SessionRootPids == { sessions[id].child_pid : id \in DOMAIN sessions }

\* The kill_process command: it collects the root pids of the sessions in the map, and
\* process_tree::kill_process refuses a pid that is among them.
KillProcessCall(pid) ==
    /\ qpc = "idle"
    /\ pops < MaxPtyOps
    /\ pops' = pops + 1
    /\ qpid' = pid
    /\ qroot' = (pid \in { PtySession(id).child_pid : id \in DOMAIN sessions })
    /\ qsig' = << >>
    /\ IF pid \in SessionRootPids
       THEN /\ qres' = "CannotKillRoot"
            /\ qpc' = "returned"
       ELSE /\ qres' = ""
            /\ qpc' = "checked"
    /\ UNCHANGED << next_id, sessions, pty, spc, sfetched, sseen, sres, issued,
                    kpc, karg, ksig, kterm, kres, nremoved >>
    /\ UNCHANGED << regVars, xVars, zVars, gVars, cops >>
    /\ UNCHANGED << statusVars, mcpVars, utf8Vars, wtVars, repVars, pathVars >>

\* process_tree::kill_process: sys.process(pid) after a refresh, or NotFound.  A shell
\* the model has started is in the process table (running, or a zombie); a shell it has
\* not started is not; another process may or may not be.
KillProcessExists(exists) ==
    /\ qpc = "checked"
    /\ (qpid # OtherPid) => (exists <=> ShellOf(qpid) \in DOMAIN pty)
    /\ IF exists
       THEN /\ qpc' = "term"
            /\ UNCHANGED qres
       ELSE /\ qres' = "NotFound"
            /\ qpc' = "returned"
    /\ UNCHANGED << qpid, qroot, qsig >>
    /\ UNCHANGED << regVars, xVars, zVars, gVars, cops >>
    /\ UNCHANGED notCmd

\* process_tree::kill_process: libc::kill(pid, SIGTERM) returns term_result; a failure
\* ends the call with KillFailed.  A shell may die of the signal or ignore it (ChildExit).
KillProcessTerm(term_result) ==
    /\ qpc = "term"
    /\ IF term_result = 0
       THEN /\ qsig' = Append(qsig, << qpid, "SIGTERM" >>)
            /\ qpc' = "waiting"
            /\ UNCHANGED qres
       ELSE /\ qres' = "KillFailed"
            /\ qpc' = "returned"
            /\ UNCHANGED qsig
    /\ UNCHANGED << qpid, qroot >>
    /\ UNCHANGED << regVars, xVars, zVars, gVars, cops >>
    /\ UNCHANGED notCmd

\* process_tree::kill_process: the poll loop returns when libc::kill(pid, 0) fails
\* (gone: the process has exited and has been reaped); otherwise the 2 s timeout elapses
\* and the process gets SIGKILL, ESRCH being tolerated.  Either way Ok(()).
KillProcessWait(gone) ==
    /\ qpc = "waiting"
    /\ (gone /\ ShellOf(qpid) \in DOMAIN pty) => pty[ShellOf(qpid)].child = "dead"
    /\ IF gone
       THEN UNCHANGED << qsig, pty >>
       ELSE /\ qsig' = Append(qsig, << qpid, "SIGKILL" >>)
            /\ pty' = IF ShellOf(qpid) \in DOMAIN pty
                      THEN [pty EXCEPT ![ShellOf(qpid)].child = "dead"]
                      ELSE pty
    /\ qres' = "Ok"
    /\ qpc' = "returned"
    /\ UNCHANGED << next_id, sessions, spc, sfetched, sseen, sres, issued,
                    kpc, karg, ksig, kterm, kres, nremoved, pops >>
    /\ UNCHANGED << qpid, qroot >>
    /\ UNCHANGED << regVars, xVars, zVars, gVars, cops >>
    /\ UNCHANGED << statusVars, mcpVars, utf8Vars, wtVars, repVars, pathVars >>

\* The kill_process command has answered; the task ends.
KillProcessReturn ==
    /\ qpc = "returned"
    /\ qpc' = "idle"
    /\ qpid' = 0
    /\ qroot' = FALSE
    /\ qsig' = << >>
    /\ qres' = ""
    /\ UNCHANGED << regVars, xVars, zVars, gVars, cops >>
    /\ UNCHANGED notCmd

\* The PTY manager with the resize_pty and kill_process commands of the front end.
TermNext ==
    \/ \E t \in Spawners : SpawnAlloc(t)
    \/ \E t \in Spawners, failed \in SpawnSteps \cup {"none"} : SpawnCreate(t, failed)
    \/ \E t \in Spawners : SpawnInsert(t)
    \/ \E t \in Spawners : SpawnReturn(t)
    \/ \E id \in DOMAIN pty : ChildExit(id)
    \/ \E id \in DOMAIN pty : ReaderRead(id)
    \/ \E id \in DOMAIN pty : ReaderEof(id)
    \/ \E id \in DOMAIN pty : ReaderSend(id)
    \/ \E id \in DOMAIN pty : EmitterRecv(id)
    \/ \E id \in DOMAIN pty : EmitterExit(id)
    \/ \E k \in Killers, id \in 1..(next_id - 1) : KillCall(k, id)
    \/ \E k \in Killers : KillRemove(k)
    \/ \E k \in Killers, term_result \in {0, -1} : KillTerm(k, term_result)
    \/ \E k \in Killers, gone \in BOOLEAN : KillWait(k, gone)
    \/ \E k \in Killers : KillCleanup(k)
    \/ \E k \in Killers : KillJoin(k)
    \/ \E k \in Killers : KillReturn(k)
    \/ \E session_id \in 1..2, d \in ResizeDims : ResizePty(session_id, d[1], d[2])
    \/ \E pid \in KillPids : KillProcessCall(pid)
    \/ \E exists \in BOOLEAN : KillProcessExists(exists)
    \/ \E term_result \in {0, -1} : KillProcessTerm(term_result)
    \/ \E gone \in BOOLEAN : KillProcessWait(gone)
    \/ KillProcessReturn

(***************************************************************************)
(*            MANAGED WORKTREE PATHS (worktree_manager.rs)                 *)
(***************************************************************************)
\* Bounds: the parts of a branch name, and the names whose path one run computes.
MaxBranchParts == 3

MaxNames == 2

\* The parts branch names are made of: two words and the two separators.
BranchParts == { "feat", "x", "/", "-" }

\* The names git accepts as a branch name over these parts: not empty, no "/" at
\* either end, no "//", no leading "-".
BranchNames ==
    { b \in UNION { [1..n -> BranchParts] : n \in 1..MaxBranchParts } :
         /\ b[1] \notin {"/", "-"}
         /\ b[Len(b)] # "/"
         /\ \A i \in 1..(Len(b) - 1) : ~(b[i] = "/" /\ b[i + 1] = "/") }

notPath == << statusVars, ptyVars, mcpVars, utf8Vars, wtVars, repVars, cmdVars >>

PathInit == computed = EmptyMap

\* WorktreeManager::worktree_path for a branch of the repository at MainPath.
ComputePath(branch) ==
    /\ branch \notin DOMAIN computed
    /\ Cardinality(DOMAIN computed) < MaxNames
    /\ computed' = MapInsert(computed, branch, worktree_path(MainPath, branch))
    /\ UNCHANGED notPath

PathNext ==
    \/ \E branch \in BranchNames : ComputePath(branch)

(***************************************************************************)
(*                            SPECIFICATIONS                               *)
(***************************************************************************)
vars == << statusVars, ptyVars, mcpVars, utf8Vars, wtVars, repVars, cmdVars, pathVars >>

\* One repository, for the runs of the other sub-systems.
OneRepository ==
    { [locals |-> {MAIN}, remotes |-> {},
       worktrees |-> (MainPath :> Some(MAIN)), init_default |-> None] }

\* The state after construction: no config file yet, no PTY output yet.
Init ==
    /\ StatusInit(EmptyMap) /\ PtyInit
    /\ McpInit({Absent}, {TRUE}) /\ Utf8Init(0) /\ WtInit(OneRepository)
    /\ RepInit({None}) /\ CmdInit /\ PathInit

\* The same, over every initial .mcp.json and with or without the sidecar binary.
InitMcp ==
    /\ StatusInit(EmptyMap) /\ PtyInit
    /\ McpInit(InitialFiles, BOOLEAN) /\ Utf8Init(0) /\ WtInit(OneRepository)
    /\ RepInit({None}) /\ CmdInit /\ PathInit

\* The same, over every byte sequence the decoder may be fed.
InitUtf8 ==
    /\ StatusInit(EmptyMap) /\ PtyInit
    /\ McpInit({Absent}, {TRUE}) /\ Utf8Init(MaxBytes) /\ WtInit(OneRepository)
    /\ RepInit({None}) /\ CmdInit /\ PathInit

\* The same, after 99 statuses of sessions that never registered have been buffered.
InitBacklog ==
    /\ StatusInit(Backlog) /\ PtyInit
    /\ McpInit({Absent}, {TRUE}) /\ Utf8Init(0) /\ WtInit(OneRepository)
    /\ RepInit({None}) /\ CmdInit /\ PathInit

\* The same, over every repository the project may be.
InitWorktree ==
    /\ StatusInit(EmptyMap) /\ PtyInit
    /\ McpInit({Absent}, {TRUE}) /\ Utf8Init(0) /\ WtInit(Repositories)
    /\ RepInit({None}) /\ CmdInit /\ PathInit

SpecStatus == Init /\ [][StatusNext]_vars

SpecStatusBacklog == InitBacklog /\ [][StatusNext]_vars

SpecPty == Init /\ [][PtyNext]_vars

\* The PTY manager with its scheduling: the runtime keeps polling a kill_session
\* future and an emitter task that can make a step, and the operating system keeps
\* running a reader thread that is not blocked; one condition for each of them.
\* Nothing obliges a shell to exit or to write output, nor the front end to call
\* a command.
PtyFairness ==
    /\ \A k \in Killers :
          WF_vars(\/ \E term_result \in {0, -1} : KillTerm(k, term_result)
                  \/ \E gone \in BOOLEAN : KillWait(k, gone)
                  \/ KillCleanup(k) \/ KillJoin(k))
    /\ \A id \in 1..IdMax :
          /\ WF_vars(ReaderEof(id) \/ ReaderSend(id))
          /\ WF_vars(EmitterRecv(id) \/ EmitterExit(id))

SpecPtyFair == Init /\ [][PtyNext]_vars /\ PtyFairness

SpecMcp == InitMcp /\ [][McpNext]_vars

SpecUtf8 == InitUtf8 /\ [][Utf8Next]_vars

SpecWorktree == InitWorktree /\ [][WtNext]_vars

\* The same, with or without a status URL in the sidecar's environment.
InitReporter ==
    /\ StatusInit(EmptyMap) /\ PtyInit
    /\ McpInit({Absent}, {TRUE}) /\ Utf8Init(0) /\ WtInit(OneRepository)
    /\ RepInit({ None, Some("http://127.0.0.1:9900/status") }) /\ CmdInit /\ PathInit

SpecReporter == InitReporter /\ [][RepNext]_vars

SpecSessions == Init /\ [][SessionNext]_vars

SpecTerminal == Init /\ [][TermNext]_vars

SpecRegistry == Init /\ [][RegistryNext]_vars

SpecPaths == Init /\ [][PathNext]_vars

(***************************************************************************)
(*                                CLAIMS                                   *)
(***************************************************************************)

\* C1: a POST /status whose instance_id differs from the server's is answered 403,
\* publishes no session-status-changed event and leaves session_projects and
\* pending_statuses unchanged, whether or not its session is registered or buffered;
\* the handler then only returns.
C1_WrongInstanceRejected ==
    [][\A h \in Handlers :
         /\ ( /\ hpc[h] = "idle" /\ hpc'[h] # "idle"
              /\ Unwrap(hreq'[h]).instance_id # instance_id )
            => /\ hpc'[h] = "done" /\ hresp'[h] = 403
               /\ events' = events
               /\ session_projects' = session_projects
               /\ pending_statuses' = pending_statuses
         /\ ( /\ hpc[h] = "done" /\ hresp[h] = 403 /\ hpc'[h] # "done" )
            => /\ hpc'[h] = "idle"
               /\ events' = events
               /\ session_projects' = session_projects
               /\ pending_statuses' = pending_statuses
    ]_vars

\* C1 witness: a stale-instance request for a registered session has been answered
\* 403 while another session's status is buffered.
C1_Witness ==
    \E h \in Handlers :
        /\ hpc[h] = "done" /\ hresp[h] = 403
        /\ Unwrap(hreq[h]).session_id \in DOMAIN session_projects
        /\ DOMAIN pending_statuses # {}

\* The events for session sid published since caller c's call began.
EventsSince(c, sid) ==
    SelectSeq(SubSeq(events, rlen[c] + 1, Len(events)), LAMBDA e : e.session_id = sid)

\* What a register_session(s, p) call that has returned must have published, given
\* the pending entry of s when it began.
FlushedAsClaimed(c) ==
    LET sid == CallSession(c)
        p == Unwrap(rarg[c])[2]
    IN  /\ sid \notin DOMAIN pending_statuses
        /\ IF IsSome(rstart[c])
           THEN LET b == Unwrap(rstart[c]) IN
                EventsSince(c, sid) =
                    << [ session_id |-> sid, project_path |-> p,
                         status |-> MapState(b.state), message |-> b.message,
                         needs_input_prompt |-> b.needs_input_prompt ] >>
           ELSE EventsSince(c, sid) = << >>

RegisterReturned(c) == rpc[c] = "returned" /\ Unwrap(rarg[c])[3] = "register"

NeverReturnedTwice == \A i, j \in 1..Len(issued) : (i # j) => issued[i] # issued[j]

\* C3 as stated: every id spawn_shell returns is strictly greater than every id
\* returned by a spawn_shell call that completed earlier, and no id is returned
\* twice.  Two overlapping calls can return in the opposite order of their fetches.
C3_Original ==
    /\ \A i, j \in 1..Len(issued) : (i < j) => issued[i] < issued[j]
    /\ NeverReturnedTwice

\* C3: every id spawn_shell returns is strictly greater than every id returned by a
\* spawn_shell call that completed before this call began, and no id is ever
\* returned twice, also after kill_session calls and failed spawn attempts.
C3_IdsIncreaseAcrossCompletedCalls ==
    /\ \A t \in Spawners :
          (spc[t] = "returned" /\ Unwrap(sres[t])[1] = "Ok")
              => \A earlier \in sseen[t] : earlier < Unwrap(sres[t])[2]
    /\ NeverReturnedTwice

\* A spawn_shell call returns an id after an earlier call has returned one and a
\* session has been killed.
C3_Witness ==
    /\ \E t \in Spawners :
          /\ spc[t] = "returned" /\ Unwrap(sres[t])[1] = "Ok"
          /\ sseen[t] # {}
    /\ DOMAIN nremoved # {}

\* Two kill_session calls for the same session, both made while it was in the map.
KilledTogether(k1, k2) ==
    /\ k1 # k2
    /\ karg[k1][1] = karg[k2][1]
    /\ karg[k1][2] /\ karg[k2][2]

\* The kill_session call has removed the session from the map.
HasRemoved(k) == kpc[k] \in {"removed", "waiting", "cleanup", "join"} \/ kres[k] = "Ok"

\* C4: of the kill_session(id) calls made concurrently for one live session exactly
\* one removes the session, signals its process group and returns Ok; every other
\* one returns SessionNotFound and sends no signal.
C4_OneKillWins ==
    /\ \A id \in DOMAIN nremoved : nremoved[id] = 1
    /\ \A k \in Killers :
          /\ (ksig[k] # << >>) => HasRemoved(k)
          /\ (kres[k] = "SessionNotFound") => ksig[k] = << >>
          /\ (kres[k] = "Ok") =>
                /\ ksig[k] # << >>
                /\ ksig[k][1] = << PtySession(karg[k][1]).pgid, "SIGTERM" >>
    /\ \A k1, k2 \in Killers :
          KilledTogether(k1, k2) =>
              /\ ~(HasRemoved(k1) /\ HasRemoved(k2))
              /\ (kpc[k1] = "returned" /\ kpc[k2] = "returned")
                    => { kres[k1], kres[k2] } = { "Ok", "SessionNotFound" }

\* Two concurrent kill_session calls for one live session have both returned.
C4_Witness ==
    \E k1, k2 \in Killers :
        /\ KilledTogether(k1, k2)
        /\ kres[k1] = "Ok" /\ ksig[k1] # << >>
        /\ kres[k2] = "SessionNotFound"

\* C9: when the output channel of a session is full and the reader thread has read
\* another chunk, the reader does not wait for the channel: its send step can be
\* taken at once (the chunk being dropped), and the thread goes on reading.
C9_ReaderNeverBlocks ==
    \A id \in DOMAIN pty :
        (pty[id].reader = "sending" /\ pty[id].chan = ChannelSlots)
            => ENABLED ReaderSend(id)

\* The call is in its read-modify-write section.
InRmw(c) == mpc[c] \in {"locked", "merged"}

Serialized ==
    /\ \A c1, c2 \in McpCallers : (c1 # c2) => ~(InRmw(c1) /\ InRmw(c2))
    /\ mfile = mlin

C6_AllManagedEntriesPresent ==
    \A c1, c2 \in McpCallers :
        ( /\ c1 \in mwith[c2]
          /\ mpc[c1] = "done" /\ mpc[c2] = "done"
          /\ mres[c1] = "Ok" /\ mres[c2] = "Ok"
          /\ marg[c1].op = "write" /\ marg[c2].op = "write"
          /\ marg[c1].session_id # marg[c2].session_id
          /\ marg[c1].working_dir = marg[c2].working_dir
          /\ mcp_bin )
        => \A c \in {c1, c2} :
              \E n \in DOMAIN mfile.servers :
                  mfile.servers[n] = << "session", marg[c].session_id >>

\* The entry n is in .mcp.json with the same value after the step.
EntryStays(n) == n \in DOMAIN mfile'.servers /\ mfile'.servers[n] = mfile.servers[n]

RECURSIVE LossyButTail(_, _)
LossyButTail(data, i) ==
    IF i > Len(data) \/ First(data, i)[1] = "incomplete" THEN << >>
    ELSE << IF First(data, i)[1] = "ok" THEN CodePoint(data, i, First(data, i)[2])
            ELSE REPLACEMENT_CHARACTER >>
         \o LossyButTail(data, i + First(data, i)[2])

\* C8: however the byte sequence is split into chunks, the concatenation of the
\* strings the decode calls have returned equals the replacement-decoding of the
\* bytes passed so far, apart from a trailing incomplete code point.
C8_ConcatenationIsLossyDecoding ==
    utf8_out = LossyButTail(SubSeq(utf8_input, 1, utf8_pos), 1)

\* C10: prepare_session_worktree never returns an error; its result is either the
\* project path with no worktree_path, created = false and, when a non-empty branch
\* was requested, a warning, or a worktree directory other than the project path
\* with worktree_path equal to working_directory.
C10_AlwaysOkProjectOrWorktree ==
    \A p \in Preparers :
        IsSome(wres[p]) =>
            /\ Unwrap(wres[p])[1] = "Ok"
            /\ LET r == Unwrap(wres[p])[2]
               IN  \/ /\ r.working_directory = wproject[p]
                      /\ r.worktree_path = None
                      /\ ~r.created
                      /\ (wbranch[p] \notin { None, Some(<< >>) }) => IsSome(r.warning)
                   \/ /\ r.working_directory # wproject[p]
                      /\ r.worktree_path = Some(r.working_directory)

\* The step in which prepare call p, made for a branch and overlapping no other
\* prepare call, answers.
SoloAnswer(p) ==
    /\ wres[p] = None /\ wres'[p] # None
    /\ wbranch'[p] \notin { None, Some(<< >>) }
    /\ wsolo'[p]

\* The call reuses the worktree at path and creates nothing.
Reuses(p, path) ==
    /\ wres'[p] = Some(InWorktree(path, FALSE, None))
    /\ UNCHANGED << worktrees, locals >>

\* The call creates the worktree at path for its branch.
Creates(p, path) ==
    /\ Unwrap(wres'[p])[2].created
    /\ Unwrap(wres'[p])[2].worktree_path = Some(path)
    /\ path \notin DOMAIN worktrees
    /\ worktrees' = MapInsert(worktrees, path, Some(wlocal[p]))

\* C11: with every Git step succeeding, for a branch not checked out in the main
\* worktree the first prepare returns created = true with path P, and every later
\* prepare made while that worktree exists returns created = false with P and
\* creates nothing.
C11_FirstCreatesLaterReuses ==
    [][\A p \in Preparers :
          (SoloAnswer(p) /\ wgit'[p]) =>
              LET P == worktree_path(wproject[p], wlocal[p])
              IN  /\ (P \in DOMAIN worktrees /\ worktrees[P] = Some(wlocal[p]))
                        => Reuses(p, P)
                  /\ (P \notin DOMAIN worktrees /\ worktrees[MainPath] # Some(wlocal[p]))
                        => Creates(p, P)]_vars

\* The step in which handler h, having found its session unregistered, meets a full
\* buffer that holds nothing for the session.
MeetsFullBuffer(h) ==
    /\ hpc[h] = "routed" /\ hpc'[h] = "done"
    /\ ~IsSome(hproj[h])
    /\ Cardinality(DOMAIN pending_statuses) = MAX_PENDING_STATUSES
    /\ Unwrap(hreq[h]).session_id \notin DOMAIN pending_statuses

\* C12: the pending-status buffer never holds more than 100 entries; a status for an
\* unregistered session not yet buffered that arrives when 100 are buffered is
\* dropped, answered 202, and leaves the buffer unchanged.
C12_BufferBounded ==
    [][/\ Cardinality(DOMAIN pending_statuses') <= MAX_PENDING_STATUSES
       /\ \A h \in Handlers :
             MeetsFullBuffer(h) => (hresp'[h] = 202 /\ UNCHANGED pending_statuses)]_vars

\* Two requests and nothing else have been handled: the buffer is full and one of
\* the two statuses has been dropped with a 202.
C12_Witness ==
    /\ nops = 2
    /\ Cardinality(DOMAIN pending_statuses) = MAX_PENDING_STATUSES
    /\ \E h \in Handlers :
          /\ hpc[h] = "done" /\ hresp[h] = 202
          /\ Unwrap(hreq[h]).session_id \notin DOMAIN pending_statuses

\* C13: for every interleaving of register_session(s, p) with POST /status handlers
\* for s, the buffered status that the registration flushes is published before any
\* event of a request that found s registered.
C13_FlushedBeforePostRegistration ==
    [][\A c \in Callers :
          ( /\ rpc[c] = "reg_flush" /\ rpc'[c] = "returned"
            /\ IsSome(rbuf[c])
            /\ Unwrap(rarg[c])[4] /\ ralone[c] )
          => EventsSince(c, CallSession(c)) = << >>]_vars

\* C14: one report_status call makes at most 3 POST attempts, none after a 2xx or a
\* 4xx response, and another attempt only after a 5xx response or a transport error.
C14_RetryOnlyAfterServerError ==
    /\ Len(posts) <= MAX_RETRIES
    /\ \A i \in 1..(Len(posts) - 1) :
          posts[i] = TransportError \/ (500 <= posts[i] /\ posts[i] <= 599)

\* The sidecar has handled a tools/call request (with an id) for the status tool.
StatusToolCalled ==
    /\ jpc = "responded"
    /\ Unwrap(jreq).has_id
    /\ Unwrap(jreq).method = "tools/call"
    /\ Unwrap(jreq).name = "maestro_status"

\* C15: report_status returns success for every outcome (no URL, transport error, 4xx,
\* retries exhausted), so a tools/call of the status tool is always answered with
\* the acknowledgement result and never with a JSON-RPC error.
C15_StatusToolAlwaysAcknowledged ==
    /\ IsSome(jreport) => jreport = Some(<< "Ok" >>)
    /\ StatusToolCalled => jresp = Some(<< "result", "Status reported" >>)

\* A tools/call of the status tool has been answered after three failed attempts,
\* the last a transport error.
C15_Witness ==
    /\ StatusToolCalled
    /\ Len(posts) = MAX_RETRIES
    /\ posts[MAX_RETRIES] = TransportError
    /\ IsSome(last_error)
    /\ IsSome(jresp)

\* C16: while .mcp.json is not valid JSON, write_session_mcp_config and
\* remove_session_mcp_config return an error and leave the file as it was.
C16_InvalidJsonUntouched ==
    [][mfile.kind = "invalid" =>
          /\ mfile' = mfile
          /\ \A c \in McpCallers :
                (mpc[c] # "done" /\ mpc'[c] = "done") => mres'[c] = "Err"]_vars

\* A write and a remove have both returned an error on a file that is not JSON.
C16_Witness ==
    /\ mfile.kind = "invalid"
    /\ \E c, d \in McpCallers :
          /\ mpc[c] = "done" /\ marg[c].op = "write" /\ mres[c] = "Err"
          /\ mpc[d] = "done" /\ marg[d].op = "remove" /\ mres[d] = "Err"

\* The step in which remove d returns, as the second call of the run, after write c
\* for the same session (given no servers besides the managed one) has returned.
RemoveAfterWrite(c, d) ==
    /\ mops = 2
    /\ mpc[c] = "done" /\ marg[c].op = "write" /\ marg[c].custom = EmptyMap
    /\ mpc[d] # "done" /\ mpc'[d] = "done" /\ marg[d].op = "remove"
    /\ marg[c].session_id = marg[d].session_id
    /\ mwith[c] = {} /\ mwith[d] = {}

\* C17: from a directory with no .mcp.json or a valid one, write_session_mcp_config
\* followed by remove_session_mcp_config for the same session leaves the file absent
\* or equal to the original without its managed entries.
C17_WriteThenRemoveRestores ==
    [][\A c, d \in McpCallers :
          (RemoveAfterWrite(c, d) /\ morig.kind # "invalid") =>
              \/ mfile'.kind = "absent"
              \/ /\ morig.kind = "json"
                 /\ mfile' = Json(Retain(morig.servers), morig.extra)]_vars

\* The reader thread and the emitter task of session id are both still running.
ThreadsLive(id) == pty[id].reader # "exited" /\ pty[id].emitter = "running"

\* C18 as stated: every session present in the session map has its reader thread
\* and its event-emitter task still running.
C18_Original == \A id \in DOMAIN sessions : ThreadsLive(id)

\* C18: every session present in the session map whose shell has not exited has its
\* reader thread and its event-emitter task still running.
C18_LiveShellHasLiveThreads ==
    \A id \in DOMAIN sessions : pty[id].child = "alive" => ThreadsLive(id)

\* A session in the map with its shell alive, whose reader has delivered a chunk
\* that the emitter has yet to publish.
C18_Witness ==
    \E id \in DOMAIN sessions :
        pty[id].child = "alive" /\ pty[id].chan > 0 /\ ThreadsLive(id)

\* kill_session call k has just removed session id from the map.
KillRemoved(k, id) == kpc[k] = "removed" /\ karg[k][1] = id

\* The reader thread of session id is waiting in blocking_send on a full channel.
ReaderBlocked(id) ==
    /\ id \in DOMAIN pty
    /\ pty[id].reader = "sending" /\ pty[id].chan = ChannelSlots
    /\ pty[id].emitter = "running"

\* The reader thread and the emitter task of session id have both ended.
ThreadsExited(id) ==
    id \in DOMAIN pty /\ pty[id].reader = "exited" /\ pty[id].emitter = "exited"

\* kill_session call k has removed its session and has not returned yet.
InKill(k) == kpc[k] \in {"removed", "waiting", "cleanup", "join"}

\* Some kill_session call is past its removal and has not returned, or some session
\* removed by kill_session still has its reader thread or its emitter task.
KillPending ==
    \/ \E k \in Killers : InKill(k)
    \/ \E id \in DOMAIN nremoved : ~ThreadsExited(id)

\* C19: once kill_session has removed a session from the map, the session's reader
\* thread and emitter task both terminate and the call returns, with Ok, whatever
\* the reader was doing at the removal, blocked sending into a full channel
\* included: a call past its removal leaves kill_session only by returning Ok, and
\* from any state with such a call or with a thread of a removed session, a state
\* is reached with none.
C19_KillTerminatesThreads ==
    /\ [][\A k \in Killers :
            (InKill(k) /\ ~InKill(k)') => (kpc'[k] = "returned" /\ kres'[k] = "Ok")]_vars
    /\ KillPending ~> ~KillPending

\* kill_session has removed a session whose reader is blocked on the full channel.
C19_Witness ==
    \E k \in Killers : \E id \in 1..IdMax : KillRemoved(k, id) /\ ReaderBlocked(id)

\* C20: kill_session sends SIGTERM to the session's process group first; at the end
\* of the grace period it sends SIGKILL to the group if the child is still alive
\* and only then; and it goes through this escalation and the cleanup (notify the
\* emitter, drop the writer and the master) whether the SIGTERM was sent or failed.
C20_TermThenKillIfAlive ==
    [][\A k \in Killers :
         LET id == karg[k][1]
             pgid == PtySession(id).pgid
         IN  /\ (kpc[k] = "removed" /\ kpc'[k] # "removed") =>
                   /\ ksig'[k] = << << pgid, "SIGTERM" >> >>
                   /\ kpc'[k] = "waiting" /\ kterm'[k] \in {"sent", "failed"}
             /\ (kpc[k] = "waiting" /\ kpc'[k] # "waiting") =>
                   /\ kpc'[k] = "cleanup"
                   /\ IF pty[id].child = "alive"
                      THEN ksig'[k] = Append(ksig[k], << pgid, "SIGKILL" >>)
                      ELSE ksig'[k] = ksig[k]
             /\ (kpc[k] = "cleanup" /\ kpc'[k] # "cleanup") =>
                   /\ kpc'[k] = "join"
                   /\ pty'[id].notified /\ ~pty'[id].master_open]_vars

\* C21: the working directory prepare returns is the project path itself (with no
\* worktree path) or a worktree under the managed base directory; a worktree the
\* user created elsewhere for the branch is not reused.
C21_OnlyManagedWorktreesReturned ==
    \A p \in Preparers :
        (wpc[p] = "returned" /\ IsSome(wres[p])) =>
            LET r == Unwrap(wres[p])[2]
            IN  \/ r.working_directory = wproject[p] /\ r.worktree_path = None
                \/ /\ IsManaged(r.working_directory)
                   /\ r.worktree_path = Some(r.working_directory)

\* C22: a call that asks for the branch checked out in the project's main worktree,
\* in a repository with another local branch, returns created = true with a working
\* directory other than the project path, and the main worktree is then on another
\* branch (a call running alone, none of whose Git commands failed for a reason
\* outside the repository).
C22_CurrentBranchGetsWorktree ==
    \A p \in Preparers :
        ( /\ wpc[p] = "returned" /\ IsSome(wres[p])
          /\ wmain[p] /\ wproject[p] = MainPath /\ wsolo[p] /\ wgit[p] ) =>
            LET r == Unwrap(wres[p])[2]
            IN  /\ r.created
                /\ r.working_directory # wproject[p]
                /\ worktrees[MainPath] # Some(wlocal[p])

\* The canonical statuses, by the state string that stands for each.
CanonicalStatus ==
    [ idle |-> "Idle", working |-> "Working", needs_input |-> "NeedsInput",
      finished |-> "Done", error |-> "Error" ]

\* The status an event is to carry for a request's state string.
StatusFor(state) ==
    IF state \in DOMAIN CanonicalStatus THEN CanonicalStatus[state] ELSE "Unknown"

\* The step publishes exactly one event, made from payload, with the status status.
Publishes(payload, status) ==
    /\ Len(events') = Len(events) + 1
    /\ SubSeq(events', 1, Len(events)) = events
    /\ events'[Len(events')].session_id = payload.session_id
    /\ events'[Len(events')].message = payload.message
    /\ events'[Len(events')].status = status

\* C23 as stated: every published event carries one of the five canonical statuses.
C23_Original ==
    \A i \in 1..Len(events) :
        events[i].status \in { CanonicalStatus[s] : s \in DOMAIN CanonicalStatus }

\* C23: every event the ingress publishes, from a handler or from a registration's
\* flush, carries the canonical status of the request's state when the state is
\* idle, working, needs_input, finished or error, and the status Unknown for every
\* other state string.
C23_StatusCanonicalOrUnknown ==
    [][/\ \A h \in Handlers :
             (hpc[h] = "routed" /\ IsSome(hproj[h]) /\ hpc'[h] = "done") =>
                 Publishes(Unwrap(hreq[h]), StatusFor(Unwrap(hreq[h]).state))
       /\ \A c \in Callers :
             (rpc[c] = "reg_flush" /\ IsSome(rbuf[c]) /\ rpc'[c] # "reg_flush") =>
                 Publishes(Unwrap(rbuf[c]), StatusFor(Unwrap(rbuf[c]).state))
       /\ (events' # events) =>
             \/ \E h \in Handlers : hpc[h] = "routed" /\ hpc'[h] = "done"
             \/ \E c \in Callers : rpc[c] = "reg_flush" /\ rpc'[c] # "reg_flush"]_vars

\* Events have been published with a canonical status and with the status Unknown.
C23_Witness ==
    /\ \E i \in 1..Len(events) : events[i].status = "NeedsInput"
    /\ \E i \in 1..Len(events) : events[i].status = "Unknown"

\* spawn_shell call t has returned IdOverflow.
Overflowed(t) == sres[t] = Some(<< "Err", "IdOverflow" >>)

\* C26: a spawn_shell that finds the counter at the last 32-bit value fails with
\* IdOverflow, opens no PTY, adds no session and leaves the counter where it is;
\* the counter never decreases and never passes that value, so every later
\* spawn_shell fails the same way and no id already issued is handed out again.
C26_OverflowIsFinal ==
    [][/\ \A t \in Spawners :
             (spc[t] = "idle" /\ spc'[t] # "idle" /\ next_id = IdMax) =>
                 /\ spc'[t] = "returned" /\ Overflowed(t)'
                 /\ next_id' = next_id /\ pty' = pty /\ sessions' = sessions
                 /\ issued' = issued
       /\ \A t \in Spawners : (Overflowed(t)' /\ ~Overflowed(t)) => next_id = IdMax
       /\ next_id' >= next_id /\ next_id' <= IdMax
       /\ \A i \in 1..Len(issued') : \A j \in 1..Len(issued') :
             (issued'[i] = issued'[j]) => i = j]_vars

\* A spawn_shell has failed with IdOverflow after every id below the last value
\* was issued.
C26_Witness ==
    /\ next_id = IdMax
    /\ \E t \in Spawners : spc[t] = "returned" /\ Overflowed(t)
    /\ Len(issued) = IdMax - 1

\* No register_session, unregister_session or status handler is in progress.
Quiescent ==
    /\ \A h \in Handlers : hpc[h] \in {"idle", "done"}
    /\ \A c \in Callers : rpc[c] \in {"idle", "returned"}

\* C30: in every quiescent state a session of the session-to-project map has no
\* entry in the pending buffer, however register_session and the status handlers
\* for the session interleave.
C30_NoStrandedStatus ==
    Quiescent => DOMAIN session_projects \cap DOMAIN pending_statuses = {}

\* C28: whenever spawn_shell returns an error, the call leaves no session entry, no
\* child shell process, no reader thread and no emitter task.
C28_FailedSpawnLeavesNothing ==
    \A t \in Spawners :
        (spc[t] = "returned" /\ IsSome(sres[t]) /\ Unwrap(sres[t])[1] = "Err") =>
            /\ sfetched[t] \notin DOMAIN sessions
            /\ sfetched[t] \in DOMAIN pty =>
                  /\ pty[sfetched[t]].child # "alive"
                  /\ pty[sfetched[t]].reader \in {"none", "exited"}
                  /\ pty[sfetched[t]].emitter \in {"none", "exited"}

\* C27: at the step where the remove_sessions_for_project command returns, every
\* session it removed is absent from the session registry, from the PTY session map,
\* and from the status ingress: the routing map and the pending buffer.
C27_RemovedSessionsGoneEverywhere ==
    [][(xpc = "returning" /\ xpc' = "returned") =>
          \A id \in xdone' :
             /\ id \notin DOMAIN registry'
             /\ id \notin DOMAIN sessions'
             /\ id \notin DOMAIN session_projects'
             /\ id \notin DOMAIN pending_statuses']_vars

\* The step is the SessionManager call op on session id.
RegistryStep(op, id) == clast'.seq = clast.seq + 1 /\ clast'.op = op /\ clast'.id = id

\* C29: create_session with an id already in the registry fails and leaves the stored
\* record (status, branch, worktree path, project path) as it is; with an id not in the
\* registry it stores a record with status Starting and no branch.  get_session
\* returns the stored record, which no step changes but an update_status or
\* assign_branch for the id, and which stays in the registry until a removal
\* (remove_session for the id, after which the id is not in the registry, or the
\* removal of its whole project) takes it out.
C29_CreateGetRemove ==
    [][\A id \in SessionIds :
          /\ RegistryStep("create_session", id) =>
                IF id \in DOMAIN registry
                THEN /\ clast'.result = << "Err", registry[id] >>
                     /\ registry' = registry
                ELSE /\ DOMAIN registry' = DOMAIN registry \cup {id}
                     /\ \A other \in DOMAIN registry : registry'[other] = registry[other]
                     /\ registry'[id].id = id
                     /\ registry'[id].status = "Starting"
                     /\ registry'[id].branch = None
                     /\ registry'[id].worktree_path = None
                     /\ clast'.result = << "Ok", registry'[id] >>
                     /\ get_session(registry', id) = Some(registry'[id])
          /\ RegistryStep("get_session", id) =>
                /\ registry' = registry
                /\ clast'.result = IF id \in DOMAIN registry THEN Some(registry[id]) ELSE None
          /\ RegistryStep("remove_session", id) =>
                /\ id \notin DOMAIN registry'
                /\ get_session(registry', id) = None
                /\ \A other \in DOMAIN registry \ {id} :
                      other \in DOMAIN registry' /\ registry'[other] = registry[other]
          /\ (id \in DOMAIN registry /\ id \notin DOMAIN registry') =>
                \/ RegistryStep("remove_session", id)
                \/ /\ RegistryStep("remove_sessions_for_project", 0)
                   /\ registry[id].project_path = Unwrap(xpath')
          /\ (id \in DOMAIN registry /\ id \in DOMAIN registry'
                  /\ registry'[id] # registry[id]) =>
                \/ RegistryStep("update_status", id)
                \/ RegistryStep("assign_branch", id)]_vars

\* A create_session for an id in the registry has failed, and the stored record is
\* still the one that was created.
C29_Witness ==
    /\ clast.op = "create_session"
    /\ clast.result[1] = "Err"
    /\ clast.id \in DOMAIN registry
    /\ registry[clast.id] = clast.result[2]
    /\ registry[clast.id].status = "Starting"

\* C24: a resize_pty command with rows = 0, cols = 0, rows > 500 or cols > 500 returns
\* ResizeFailed and touches no PTY, whether or not the session id is in the map; with
\* both dimensions in 1..500 it gives the session's PTY that size, or returns
\* SessionNotFound, touching no PTY, when the id is not live.
C24_ResizeChecksDimensions ==
    [][zlast'.seq = zlast.seq + 1 =>
          IF zlast'.rows = 0 \/ zlast'.cols = 0 \/ zlast'.rows > 500 \/ zlast'.cols > 500
          THEN /\ zlast'.result = "ResizeFailed"
               /\ winsize' = winsize /\ pty' = pty /\ sessions' = sessions
          ELSE IF zlast'.session_id \in DOMAIN sessions
          THEN /\ zlast'.result = "Ok"
               /\ winsize' = MapInsert(winsize, zlast'.session_id,
                                       << zlast'.rows, zlast'.cols >>)
               /\ sessions' = sessions
          ELSE /\ zlast'.result = "SessionNotFound"
               /\ winsize' = winsize /\ pty' = pty /\ sessions' = sessions]_vars

\* A resize to 501 rows of a live session, which another resize had given 500 x 500,
\* has been refused.
C24_Witness ==
    /\ zlast.rows = 501
    /\ zlast.live
    /\ zlast.result = "ResizeFailed"
    /\ zlast.session_id \in DOMAIN winsize
    /\ winsize[zlast.session_id] = << 500, 500 >>

\* C25: kill_process(pid) returns the cannot-kill-root error and sends no signal
\* whenever pid is the root (shell) pid of a session that is live, i.e. in the session
\* map, when the command runs.
C25_RootPidRefused ==
    (qpc # "idle" /\ qroot) => (qpc = "returned" /\ qres = "CannotKillRoot" /\ qsig = << >>)

\* kill_process has refused the pid of a live session's running shell.
C25_Witness ==
    /\ qpc = "returned"
    /\ qroot
    /\ qres = "CannotKillRoot"
    /\ ShellOf(qpid) \in DOMAIN sessions
    /\ pty[ShellOf(qpid)].child = "alive"

\* C31: while session s is unregistered, a status for s that is answered 202 replaces
\* the older status buffered for s, whatever the number of buffered entries: after the
\* answer the pending entry of s is that status.
C31_NewerStatusReplacesBuffered ==
    [][\A h \in Handlers :
          (/\ hresp[h] = 0
           /\ hresp'[h] = 202
           /\ Unwrap(hreq[h]).session_id \notin DOMAIN session_projects
           /\ Unwrap(hreq[h]).session_id \in DOMAIN pending_statuses)
          => pending_statuses'[Unwrap(hreq[h]).session_id] = Unwrap(hreq[h])]_vars

\* C32: the entries of sessions that never register do not keep later sessions out:
\* when 100 entries are held, a status answered 202 for an unregistered session that
\* has no entry yet is buffered all the same (an older entry being evicted), so that
\* the registration of the session finds and delivers it.
C32_FullBufferTakesLaterSession ==
    [][\A h \in Handlers :
          (/\ hresp[h] = 0
           /\ hresp'[h] = 202
           /\ Unwrap(hreq[h]).session_id \notin DOMAIN session_projects
           /\ Unwrap(hreq[h]).session_id \notin DOMAIN pending_statuses
           /\ Cardinality(DOMAIN pending_statuses) = MAX_PENDING_STATUSES)
          => /\ Unwrap(hreq[h]).session_id \in DOMAIN pending_statuses'
             /\ pending_statuses'[Unwrap(hreq[h]).session_id] = Unwrap(hreq[h])
             /\ Cardinality(DOMAIN pending_statuses') <= MAX_PENDING_STATUSES]_vars

\* C33: after every decode call the carried-over buffer holds at most 3 bytes, which
\* are the start of a code point that the bytes to come may complete; once a complete
\* well-formed input has been decoded the buffer is empty.
C33_BufferIsCodePointStart ==
    /\ Len(incomplete) <= 3
    /\ incomplete # << >> =>
          /\ from_utf8(incomplete, 1)[1] = "incomplete"
          /\ from_utf8(incomplete, 1)[2] = 0
    /\ (utf8_pos = Len(utf8_input) /\ from_utf8(utf8_input, 1)[1] = "ok") =>
          incomplete = << >>

\* C34: remove_sessions_for_project(p) returns exactly the records it removed, each
\* with project path p, and touches no session of another project; a record is handed
\* to one caller only, also when remove_session or another remove_sessions_for_project
\* runs beside it.
C34_ProjectRemovalExact ==
    [][/\ \A c \in RegCallers :
             gpc'[c] = "returned" =>
                \A i \in 1..Len(gout'[c]) : gout'[c][i].project_path = gpath'[c]
       /\ \A c \in RegCallers :
             (gpc[c] = "removing" /\ gids'[c] # gids[c]) =>
                LET id == Head(gids[c]) IN
                /\ \A j \in DOMAIN registry \ {id} :
                      j \in DOMAIN registry' /\ registry'[j] = registry[j]
                /\ (id \in DOMAIN registry /\ registry[id].project_path # gpath[c])
                      => registry' = registry
                /\ gout'[c] = IF id \in DOMAIN registry /\ id \notin DOMAIN registry'
                              THEN Append(gout[c], registry[id]) ELSE gout[c]
                /\ \A d \in RegCallers \ {c} : gout'[d] = gout[d]
       /\ \A id \in SessionIds :
             RegistryStep("remove_session", id) =>
                /\ clast'.result = MapGet(registry, id)
                /\ id \notin DOMAIN registry'
                /\ gout' = gout]_vars

\* Two concurrent calls for the same project have both returned, each with one of the
\* project's two sessions.
C34_Witness ==
    /\ gpc[1] = "returned" /\ gpc[2] = "returned"
    /\ gpath[1] = gpath[2]
    /\ Len(gout[1]) = 1 /\ Len(gout[2]) = 1
    /\ gout[1][1] # gout[2][1]

\* C35: two different branch names of one repository never get the same managed
\* worktree path.
C35_BranchesGetOwnDirectory ==
    \A a, b \in DOMAIN computed : a # b => computed[a] # computed[b]

\* C36 (as stated): once kill_session(id) has returned Ok, the emitter task publishes
\* no further pty-output-{id} event (it takes no further chunk off the channel).
C36_NoOutputAfterKill ==
    [][\A k \in Killers :
          (kpc[k] = "returned" /\ kres[k] = "Ok") =>
             ~(/\ pty[karg[k][1]].emitter = "running"
               /\ pty'[karg[k][1]].emitter = "running"
               /\ pty'[karg[k][1]].chan = pty[karg[k][1]].chan - 1)]_vars

\* C36 (amended): when kill_session(id) returns Ok the reader thread has exited, and
\* from the reader's exit on no chunk enters the channel: the events still published
\* are those of the chunks that were queued at the return.
C36_OnlyQueuedOutputAfterKill ==
    [][/\ \A k \in Killers :
             (kpc'[k] = "returned" /\ kres'[k] = "Ok") =>
                pty'[karg'[k][1]].reader = "exited"
       /\ \A id \in DOMAIN pty :
             pty[id].reader = "exited" =>
                /\ pty'[id].reader = "exited"
                /\ pty'[id].chan <= pty[id].chan]_vars

\* kill_session has returned Ok while the emitter task still runs with a chunk queued.
C36_Witness ==
    \E k \in Killers :
       /\ kpc[k] = "returned" /\ kres[k] = "Ok"
       /\ pty[karg[k][1]].emitter = "running"
       /\ pty[karg[k][1]].chan > 0

\* C37: a remove_session_mcp_config for session 1 that rewrites the .mcp.json of a
\* directory leaves in it the managed entry that session 2 wrote (the directory had
\* no managed entry before the calls, so that the one in the file was written by one).
C37_RemoveKeepsOtherSessionsEntry ==
    [][\A c \in McpCallers :
          (/\ mpc[c] = "merged" /\ mpc'[c] = "done"
           /\ marg[c].op = "remove" /\ marg[c].session_id = 1
           /\ mfile' # mfile
           /\ MAESTRO_STATUS \notin DOMAIN morig.servers
           /\ MAESTRO_STATUS \in DOMAIN mfile.servers
           /\ mfile.servers[MAESTRO_STATUS] = << "session", 2 >>)
          => /\ MAESTRO_STATUS \in DOMAIN mfile'.servers
             /\ mfile'.servers[MAESTRO_STATUS] = mfile.servers[MAESTRO_STATUS]]_vars

\* C38: two write_session_mcp_config calls that name the one directory by different
\* path strings are never in their read-modify-write sections together, and never
\* both have the temp file .mcp.json.tmp.<pid> written and not yet renamed.
C38_OneMutexPerDirectory ==
    \A c1, c2 \in McpCallers :
        ( /\ c1 # c2
          /\ marg[c1].op = "write" /\ marg[c2].op = "write"
          /\ marg[c1].working_dir # marg[c2].working_dir )
        => /\ ~(InRmw(c1) /\ InRmw(c2))
           /\ ~(mpc[c1] = "merged" /\ mpc[c2] = "merged")

\* C39: two prepare calls for the same project and the same branch that ran
\* concurrently, no git command of either failing for a reason outside the two calls,
\* have returned the same working directory.
C39_ConcurrentPreparesAgree ==
    \A p, q \in Preparers :
        ( /\ p # q
          /\ wpc[p] = "returned" /\ wpc[q] = "returned"
          /\ ~wsolo[p] /\ ~wsolo[q]
          /\ wgit[p] /\ wgit[q]
          /\ wproject[p] = wproject[q]
          /\ wbranch[p] = wbranch[q] )
        => Unwrap(wres[p])[2].working_directory = Unwrap(wres[q])[2].working_directory

\* C40: a write_session_mcp_config that rewrites an existing .mcp.json keeps the
\* document's top-level keys other than mcpServers, as remove_session_mcp_config does.
C40_WriteKeepsTopLevelKeys ==
    [][\A c \in McpCallers :
          (/\ mpc[c] = "merged" /\ mpc'[c] = "done"
           /\ marg[c].op \in {"write", "remove"}
           /\ mfile.kind = "json"
           /\ mfile'.kind = "json")
          => mfile'.extra = mfile.extra]_vars

=============================================================================
